---- MODULE Spec2Model ----
(***************************************************************************)
(* A model of the 6502 interpreter of nes/src/cpu.rs running on the NES    *)
(* bus of nes/src/bus.rs.                                                   *)
(*                                                                         *)
(* The CPU struct is the record `cpu`; its field `bus` is the bus's         *)
(* cpu_vram array.  The array is kept sparse: it is a function whose        *)
(* domain is exactly the set of indices holding a non-zero byte, so two     *)
(* equal memories are equal functions.  A panic (todo!(), expect, panic!,   *)
(* an overflow check) is recorded in the field `panic`, with the rest of    *)
(* the record as it was when the panic was raised.                          *)
(***************************************************************************)
EXTENDS Integers, Sequences, FiniteSets, TLC

VARIABLES
    cpu,                    \* the CPU struct (registers, status, bus)
    pc,                     \* where the caller / the run loop stands
    program,                \* the byte vector handed to load
    i,                      \* load's loop index
    code,                   \* the opcode byte fetched by the run loop
    program_counter_state,  \* the run loop's copy of PC after the fetch
    overflow_checks,        \* build profile: are integer overflows checked
    callback_pcs,           \* the PC values the caller's callback may set
    start,                  \* address of the opcode fetched last
    pre,                    \* the CPU as it was just before that fetch (or reset)
    reset_called,           \* has the caller called reset() after load
    calls,                  \* SP before a JSR |-> that JSR's address and the
                            \* two bytes it left on the stack
    callbacks_since_fetch,  \* callback invocations since the last fetch
    callback_set_pc,        \* did the last callback invocation assign PC
    pushes,                 \* the bytes PHA and PHP wrote and no PLA or PLP has
                            \* pulled yet, oldest first
    word_pos,               \* the address the caller hands to mem_write_u16
    word_data,              \* the 16-bit value the caller hands to it
    word_read               \* what the caller's mem_read_u16 returned

vars == <<cpu, pc, program, i, code, program_counter_state, overflow_checks,
          callback_pcs, start, pre, reset_called, calls,
          callbacks_since_fetch, callback_set_pc,
          pushes, word_pos, word_data, word_read>>

\* what the caller chose and never changes
inputs == <<program, overflow_checks, callback_pcs, word_pos,
           word_data>>

-----------------------------------------------------------------------------
(* Fixed-width arithmetic                                                  *)

U8  == 0..255
Pow2(k) == 2^k
Wrap8(v)  == v % 256
Wrap16(v) == v % 65536
Bit(v, k) == (v \div Pow2(k)) % 2

\* bitwise operators on w-bit values
RECURSIVE BitAnd(_, _, _)
BitAnd(a, b, w) ==
    IF w = 0 THEN 0
    ELSE ((a % 2) * (b % 2)) + 2 * BitAnd(a \div 2, b \div 2, w - 1)

RECURSIVE BitOr(_, _, _)
BitOr(a, b, w) ==
    IF w = 0 THEN 0
    ELSE (IF (a % 2) + (b % 2) > 0 THEN 1 ELSE 0)
         + 2 * BitOr(a \div 2, b \div 2, w - 1)

RECURSIVE BitXor(_, _, _)
BitXor(a, b, w) ==
    IF w = 0 THEN 0
    ELSE (((a % 2) + (b % 2)) % 2) + 2 * BitXor(a \div 2, b \div 2, w - 1)

BitNot(a, w) == Pow2(w) - 1 - a

\* `b as i8 as u16`: sign extension of a byte to 16 bits
SignExtend(b) == IF b >= 128 THEN b + 65280 ELSE b

-----------------------------------------------------------------------------
(* bus.rs                                                                  *)

RAM == \h0000
RAM_MIRRORS_END == \h1FFF
PPU_REGISTERS == \h2000
PPU_REGISTERS_MIRRORS_END == \h3FFF

\* outcomes that are not a byte or an address
TODO == -1          \* todo!()
OVERFLOW == -2      \* "attempt to add with overflow"
UNSUPPORTED == -3   \* panic!("mode {:?} is not supported")

PanicName(r) ==
    CASE r = TODO -> "todo"
      [] r = OVERFLOW -> "overflow"
      [] r = UNSUPPORTED -> "mode"

\* cpu_vram[idx] of the sparse array
Cell(vram, idx) == IF idx \in DOMAIN vram THEN vram[idx] ELSE 0

\* cpu_vram[idx] = data
SetCell(vram, idx, data) ==
    IF data = 0
    THEN [k \in (DOMAIN vram) \ {idx} |-> vram[k]]
    ELSE [k \in (DOMAIN vram) \cup {idx} |-> IF k = idx THEN data ELSE vram[k]]

\* Bus::new
Bus_new == <<>>

\* mem_read that mirrors RAM over the whole address space
Bus_mem_read_mirrors_all(vram, addr) == Cell(vram, BitAnd(addr, \h07FF, 16))

\* Bus::mem_read: a byte, or TODO
Bus_mem_read(vram, addr) ==
    IF addr >= RAM /\ addr <= RAM_MIRRORS_END
    THEN Cell(vram, BitAnd(addr, \h07FF, 16))
    ELSE IF addr >= PPU_REGISTERS_MIRRORS_END /\ addr <= PPU_REGISTERS_MIRRORS_END
    THEN TODO
    ELSE 0

\* does Bus::mem_write panic at addr
Bus_mem_write_panics(addr) ==
    addr >= PPU_REGISTERS /\ addr <= PPU_REGISTERS_MIRRORS_END

\* mem_write that drops writes to the mirrors of RAM
Bus_mem_write_drops_mirrors(vram, addr, data) ==
    IF addr >= RAM /\ addr <= \h07FF
    THEN SetCell(vram, addr, data)
    ELSE vram

\* Bus::mem_write: the new cpu_vram (unchanged where the write panics or is ignored)
Bus_mem_write(vram, addr, data) ==
    IF addr >= RAM /\ addr <= RAM_MIRRORS_END
    THEN SetCell(vram, BitAnd(addr, \h07FF, 16), data)
    ELSE vram

\* `pos + 1` on u16: wraps, or is an overflow panic when the build checks
AddU16(a, b) ==
    IF a + b > 65535 THEN (IF overflow_checks THEN OVERFLOW ELSE Wrap16(a + b))
    ELSE a + b

\* Mem::mem_read_u16: a 16-bit value, or a panic
Bus_mem_read_u16(vram, pos) ==
    LET lo == Bus_mem_read(vram, pos)
        p1 == AddU16(pos, 1)
    IN  IF lo < 0 THEN lo
        ELSE IF p1 < 0 THEN p1
        ELSE LET hi == Bus_mem_read(vram, p1)
             IN  IF hi < 0 THEN hi ELSE hi * 256 + lo

\* a mem_write_u16 that writes the high byte first, at pos
Bus_mem_write_u16_high_first(vram, pos, data) ==
    LET hi == data \div 256
        lo == BitAnd(data, \hFF, 16)
        v1 == Bus_mem_write(vram, pos, hi)
        p1 == AddU16(pos, 1)
    IN  IF Bus_mem_write_panics(pos) THEN [vram |-> vram, panic |-> "todo"]
        ELSE IF p1 < 0 THEN [vram |-> v1, panic |-> PanicName(p1)]
        ELSE IF Bus_mem_write_panics(p1) THEN [vram |-> v1, panic |-> "todo"]
        ELSE [vram |-> Bus_mem_write(v1, p1, lo), panic |-> "none"]

\* Mem::mem_write_u16 on the bus: [vram, panic]
Bus_mem_write_u16(vram, pos, data) ==
    LET hi == data \div 256
        lo == BitAnd(data, \hFF, 16)
        v1 == Bus_mem_write(vram, pos, lo)
        p1 == AddU16(pos, 1)
    IN  IF Bus_mem_write_panics(pos) THEN [vram |-> vram, panic |-> "todo"]
        ELSE IF p1 < 0 THEN [vram |-> v1, panic |-> PanicName(p1)]
        ELSE IF Bus_mem_write_panics(p1) THEN [vram |-> v1, panic |-> "todo"]
        ELSE [vram |-> Bus_mem_write(v1, p1, hi), panic |-> "none"]

-----------------------------------------------------------------------------
(* cpu.rs: the CPU struct and its Mem implementation                       *)

\* enum Flag
Carry == 1
Zero == 2
Interrupt == 4
Decimal == 8
Break == 16
Break2 == 32
Overflow == 64
Negative == 128

STACK == \h0100
STACK_RESET == \hFD

\* the thread unwinds from c with the given panic
Panic(c, r) == [c EXCEPT !.panic = PanicName(r)]

\* CPU::new
new(bus) ==
    [register_a |-> 0, register_x |-> 0, register_y |-> 0,
     program_counter |-> 0, stack_pointer |-> 0, status |-> 0,
     bus |-> bus, panic |-> "none"]

\* a mem_read that indexes cpu_vram with addr & 0x07FF at every address
mem_read_any_address(c, addr) == Cell(c.bus, BitAnd(addr, \h07FF, 16))

\* impl Mem for CPU
mem_read(c, addr) == Bus_mem_read(c.bus, addr)

mem_write(c, addr, data) ==
    IF Bus_mem_write_panics(addr) THEN Panic(c, TODO)
    ELSE [c EXCEPT !.bus = Bus_mem_write(c.bus, addr, data)]

mem_read_u16(c, pos) == Bus_mem_read_u16(c.bus, pos)

mem_write_u16(c, pos, data) ==
    LET r == Bus_mem_write_u16(c.bus, pos, data)
    IN  [c EXCEPT !.bus = r.vram, !.panic = r.panic]

\* a set_flag that assigns the flag's bit to the status byte instead of or-ing
\* it in
set_flag_assigns(c, flag, enabled) ==
    IF enabled
    THEN [c EXCEPT !.status = flag]
    ELSE [c EXCEPT !.status = BitAnd(c.status, BitNot(flag, 8), 8)]

\* CPU::set_flag
set_flag(c, flag, enabled) ==
    IF enabled
    THEN [c EXCEPT !.status = BitOr(c.status, flag, 8)]
    ELSE [c EXCEPT !.status = BitAnd(c.status, BitNot(flag, 8), 8)]

\* CPU::get_flag
get_flag(c, flag) == BitAnd(c.status, flag, 8) # 0

\* CPU::set_zero_and_negative_flag
set_zero_and_negative_flag(c, param) ==
    set_flag(set_flag(c, Zero, param = 0), Negative, BitAnd(param, 128, 8) # 0)

\* reset() that leaves the status register as it was
reset_keeps_status(c) ==
    LET v == mem_read_u16(c, \hFFFC)
        c1 == [c EXCEPT !.register_a = 0, !.register_x = 0, !.register_y = 0,
                        !.stack_pointer = STACK_RESET]
    IN  IF v < 0 THEN Panic(c1, v) ELSE [c1 EXCEPT !.program_counter = v]

\* CPU::reset
reset(c) ==
    LET v == mem_read_u16(c, \hFFFC)
        c1 == [c EXCEPT !.register_a = 0, !.register_x = 0, !.register_y = 0,
                        !.status = 0, !.stack_pointer = STACK_RESET]
    IN  IF v < 0 THEN Panic(c1, v) ELSE [c1 EXCEPT !.program_counter = v]

\* CPU::push_stack
\* a push_stack that decrements SP with a checked subtraction, which aborts
\* at SP = 0
push_stack_checked_sub(c, data) ==
    LET c1 == mem_write(c, STACK + c.stack_pointer, data)
    IN  IF c1.panic # "none" THEN c1
        ELSE IF c.stack_pointer = 0 THEN Panic(c1, OVERFLOW)
        ELSE [c1 EXCEPT !.stack_pointer = c.stack_pointer - 1]

push_stack(c, data) ==
    LET c1 == mem_write(c, STACK + c.stack_pointer, data)
    IN  IF c1.panic # "none" THEN c1
        ELSE [c1 EXCEPT !.stack_pointer = Wrap8(c.stack_pointer + 255)]

\* CPU::push_stack_u16
push_stack_u16(c, data) ==
    LET hi == data \div 256
        lo == BitAnd(data, \hFF, 16)
        c1 == push_stack(c, hi)
    IN  IF c1.panic # "none" THEN c1 ELSE push_stack(c1, lo)

\* pop_stack that reads the cell at SP before it increments SP
pop_stack_reads_first(c) ==
    [cpu |-> [c EXCEPT !.stack_pointer = Wrap8(c.stack_pointer + 1)],
     val |-> mem_read(c, STACK + c.stack_pointer)]

\* CPU::pop_stack: [cpu, val]; val is the byte read, or a panic
pop_stack(c) ==
    LET c1 == [c EXCEPT !.stack_pointer = Wrap8(c.stack_pointer + 1)]
    IN  [cpu |-> c1, val |-> mem_read(c1, STACK + c1.stack_pointer)]

\* CPU::pop_stack_u16: [cpu, val]
pop_stack_u16(c) ==
    LET lo == pop_stack(c)
        hi == pop_stack(lo.cpu)
    IN  IF lo.val < 0 THEN lo
        ELSE IF hi.val < 0 THEN hi
        ELSE [cpu |-> hi.cpu, val |-> BitOr(hi.val * 256, lo.val, 16)]

\* CPU::fetch: the effective address, or a panic
fetch(c, mode) ==
    CASE mode = "Immediate" -> c.program_counter
      [] mode = "ZeroPage" -> mem_read(c, c.program_counter)
      [] mode = "ZeroPage_X" ->
            LET pos == mem_read(c, c.program_counter)
            IN  IF pos < 0 THEN pos ELSE Wrap8(pos + c.register_x)
      [] mode = "ZeroPage_Y" ->
            LET pos == mem_read(c, c.program_counter)
            IN  IF pos < 0 THEN pos ELSE Wrap8(pos + c.register_y)
      [] mode = "Absolute" -> mem_read_u16(c, c.program_counter)
      [] mode = "Absolute_X" ->
            LET base == mem_read_u16(c, c.program_counter)
            IN  IF base < 0 THEN base ELSE Wrap16(base + c.register_x)
      [] mode = "Absolute_Y" ->
            LET base == mem_read_u16(c, c.program_counter)
            IN  IF base < 0 THEN base ELSE Wrap16(base + c.register_y)
      [] mode = "Indirect" ->
            LET pos == mem_read(c, c.program_counter)
            IN  IF pos < 0 THEN pos ELSE mem_read_u16(c, pos)
      [] mode = "Indirect_X" ->
            LET base == mem_read(c, c.program_counter)
            IN  IF base < 0 THEN base
                ELSE mem_read_u16(c, Wrap8(base + c.register_x))
      [] mode = "Indirect_Y" ->
            LET base == mem_read(c, c.program_counter)
            IN  IF base < 0 THEN base
                ELSE mem_read_u16(c, Wrap8(base + c.register_y))
      [] OTHER -> UNSUPPORTED

-----------------------------------------------------------------------------
(* cpu.rs: the instruction handlers.  Each takes the CPU as the run loop    *)
(* hands it over (program_counter at the first operand byte) and yields     *)
(* the CPU it leaves.                                                       *)

\* adc that leaves the carry out of the sum
adc_without_carry_in(c, mode) ==
    LET addr == fetch(c, mode) IN
    IF addr < 0 THEN Panic(c, addr) ELSE
    LET m == mem_read(c, addr) IN
    IF m < 0 THEN Panic(c, m) ELSE
    LET tmp == c.register_a + m
        a_xor_t == BitXor(c.register_a, tmp, 16)
        a_xor_m == BitXor(c.register_a, m, 16)
        c1 == set_flag(c, Zero, BitAnd(tmp, \h00FF, 16) = 0)
        c2 == set_flag(c1, Negative, BitAnd(tmp, \h0080, 16) # 0)
        c3 == set_flag(c2, Carry, BitAnd(tmp, \h0100, 16) # 0)
        c4 == set_flag(c3, Overflow,
                  BitAnd(BitAnd(a_xor_t, BitNot(a_xor_m, 16), 16), \h0080, 16) # 0)
    IN  [c4 EXCEPT !.register_a = BitAnd(tmp, \h00FF, 16)]

\* CPU::adc
adc(c, mode) ==
    LET addr == fetch(c, mode) IN
    IF addr < 0 THEN Panic(c, addr) ELSE
    LET m == mem_read(c, addr) IN
    IF m < 0 THEN Panic(c, m) ELSE
    LET tmp == c.register_a + m + BitAnd(c.status, 1, 8)
        a_xor_t == BitXor(c.register_a, tmp, 16)
        a_xor_m == BitXor(c.register_a, m, 16)
        c1 == set_flag(c, Zero, BitAnd(tmp, \h00FF, 16) = 0)
        c2 == set_flag(c1, Negative, BitAnd(tmp, \h0080, 16) # 0)
        c3 == set_flag(c2, Carry, BitAnd(tmp, \h0100, 16) # 0)
        c4 == set_flag(c3, Overflow,
                  BitAnd(BitAnd(a_xor_t, BitNot(a_xor_m, 16), 16), \h0080, 16) # 0)
    IN  [c4 EXCEPT !.register_a = BitAnd(tmp, \h00FF, 16)]

\* CPU::sbc
sbc(c, mode) ==
    LET addr == fetch(c, mode) IN
    IF addr < 0 THEN Panic(c, addr) ELSE
    LET m == mem_read(c, addr) IN
    IF m < 0 THEN Panic(c, m) ELSE
    LET nm == BitNot(m, 8) IN
    LET tmp == c.register_a + nm + BitAnd(c.status, 1, 8)
        a_xor_t == BitXor(c.register_a, tmp, 16)
        a_xor_m == BitXor(c.register_a, nm, 16)
        c1 == set_flag(c, Zero, BitAnd(tmp, \h00FF, 16) = 0)
        c2 == set_flag(c1, Negative, BitAnd(tmp, \h0080, 16) # 0)
        c3 == set_flag(c2, Carry, BitAnd(tmp, \h0100, 16) # 0)
        c4 == set_flag(c3, Overflow,
                  BitAnd(BitAnd(a_xor_t, BitNot(a_xor_m, 16), 16), \h0080, 16) # 0)
    IN  [c4 EXCEPT !.register_a = BitAnd(tmp, \h00FF, 16)]

\* CPU::sec
sec(c, mode) == set_flag(c, Carry, TRUE)

\* CPU::clc
clc(c, mode) == set_flag(c, Carry, FALSE)

\* CPU::sed
sed(c, mode) == set_flag(c, Decimal, TRUE)

\* CPU::sei
sei(c, mode) == set_flag(c, Interrupt, TRUE)

\* CPU::cld
cld(c, mode) == set_flag(c, Decimal, FALSE)

\* CPU::cli
cli(c, mode) == set_flag(c, Interrupt, FALSE)

\* CPU::clv
clv(c, mode) == set_flag(c, Overflow, FALSE)

\* CPU::and
and(c, mode) ==
    LET addr == fetch(c, mode) IN
    IF addr < 0 THEN Panic(c, addr) ELSE
    LET m == mem_read(c, addr) IN
    IF m < 0 THEN Panic(c, m) ELSE
    LET a == BitAnd(c.register_a, m, 8)
        c1 == [c EXCEPT !.register_a = a]
    IN  set_flag(set_flag(c1, Zero, a = 0), Negative, BitAnd(a, \h80, 8) # 0)

\* CPU::asl
asl(c, mode) ==
    LET addr == fetch(c, mode) IN
    IF addr < 0 THEN Panic(c, addr) ELSE
    LET m == mem_read(c, addr) IN
    IF m < 0 THEN Panic(c, m) ELSE
    LET c1 == set_flag(c, Carry, BitAnd(m, \h80, 8) # 0)
        m1 == Wrap8(m * 2)
    IN  mem_write(set_zero_and_negative_flag(c1, m1), addr, m1)

\* CPU::asl_a
asl_a(c, mode) ==
    LET c1 == set_flag(c, Carry, BitAnd(c.register_a, \h80, 8) # 0)
        a == Wrap8(c.register_a * 2)
    IN  set_zero_and_negative_flag([c1 EXCEPT !.register_a = a], a)

\* CPU::branch
branch(c, condition) ==
    IF condition
    THEN LET jmp_ == mem_read(c, c.program_counter)
         IN  IF jmp_ < 0 THEN Panic(c, jmp_)
             ELSE [c EXCEPT !.program_counter =
                       Wrap16(Wrap16(c.program_counter + 1) + SignExtend(jmp_))]
    ELSE c

\* CPU::brk
brk(c, mode) == c

\* CPU::dec
dec(c, mode) ==
    LET addr == fetch(c, mode) IN
    IF addr < 0 THEN Panic(c, addr) ELSE
    LET m == mem_read(c, addr) IN
    IF m < 0 THEN Panic(c, m) ELSE
    LET m1 == Wrap8(m + 255)
        c1 == mem_write(c, addr, m1)
    IN  IF c1.panic # "none" THEN c1 ELSE set_zero_and_negative_flag(c1, m1)

\* dex that takes 2 from X
dex_by_two(c, mode) ==
    LET v == Wrap8(c.register_x + 254)
    IN  set_zero_and_negative_flag([c EXCEPT !.register_x = v], v)

\* CPU::dex
dex(c, mode) ==
    LET v == Wrap8(c.register_x + 255)
    IN  set_zero_and_negative_flag([c EXCEPT !.register_x = v], v)

\* CPU::dey
dey(c, mode) ==
    LET v == Wrap8(c.register_y + 255)
    IN  set_zero_and_negative_flag([c EXCEPT !.register_y = v], v)

\* CPU::iny
iny(c, mode) ==
    LET v == Wrap8(c.register_y + 1)
    IN  set_zero_and_negative_flag([c EXCEPT !.register_y = v], v)

\* CPU::inx
inx(c, mode) ==
    LET v == Wrap8(c.register_x + 1)
    IN  set_zero_and_negative_flag([c EXCEPT !.register_x = v], v)

\* CPU::eor
eor(c, mode) ==
    LET addr == fetch(c, mode) IN
    IF addr < 0 THEN Panic(c, addr) ELSE
    LET m == mem_read(c, addr) IN
    IF m < 0 THEN Panic(c, m) ELSE
    LET a == BitXor(c.register_a, m, 8)
    IN  set_zero_and_negative_flag([c EXCEPT !.register_a = a], a)

\* CPU::inc
inc(c, mode) ==
    LET addr == fetch(c, mode) IN
    IF addr < 0 THEN Panic(c, addr) ELSE
    LET m == mem_read(c, addr) IN
    IF m < 0 THEN Panic(c, m) ELSE
    LET m1 == Wrap8(m + 1)
        c1 == mem_write(c, addr, m1)
    IN  IF c1.panic # "none" THEN c1 ELSE set_zero_and_negative_flag(c1, m1)

\* CPU::jmp
jmp(c, mode) ==
    LET addr == fetch(c, mode)
    IN  IF addr < 0 THEN Panic(c, addr) ELSE [c EXCEPT !.program_counter = addr]

\* JSR that pushes PC + 1, the address of its last byte
jsr_pushes_pc_plus_1(c, mode) ==
    LET jump_addr == fetch(c, mode)
        pc_ == c.program_counter
    IN  IF jump_addr < 0 THEN Panic(c, jump_addr)
        ELSE push_stack_u16([c EXCEPT !.program_counter = jump_addr], Wrap16(pc_ + 1))

\* CPU::jsr
jsr(c, mode) ==
    LET jump_addr == fetch(c, mode)
        pc_ == c.program_counter
    IN  IF jump_addr < 0 THEN Panic(c, jump_addr)
        ELSE push_stack_u16([c EXCEPT !.program_counter = jump_addr], Wrap16(pc_ + 2))

\* CPU::lsr
lsr(c, mode) ==
    LET addr == fetch(c, mode) IN
    IF addr < 0 THEN Panic(c, addr) ELSE
    LET m == mem_read(c, addr) IN
    IF m < 0 THEN Panic(c, m) ELSE
    LET c1 == set_flag(c, Carry, BitAnd(m, \h01, 8) # 0)
        m1 == m \div 2
    IN  mem_write(set_zero_and_negative_flag(c1, m1), addr, m1)

\* CPU::lsr_a
lsr_a(c, mode) ==
    LET c1 == set_flag(c, Carry, BitAnd(c.register_a, \h01, 8) # 0)
        a == c.register_a \div 2
    IN  set_zero_and_negative_flag([c1 EXCEPT !.register_a = a], a)

\* CPU::nop
nop(c, mode) == c

\* CPU::ora
ora(c, mode) ==
    LET addr == fetch(c, mode) IN
    IF addr < 0 THEN Panic(c, addr) ELSE
    LET m == mem_read(c, addr) IN
    IF m < 0 THEN Panic(c, m) ELSE
    LET a == BitOr(c.register_a, m, 8)
    IN  set_zero_and_negative_flag([c EXCEPT !.register_a = a], a)

\* CPU::bit
bit(c, mode) ==
    LET addr == fetch(c, mode) IN
    IF addr < 0 THEN Panic(c, addr) ELSE
    LET m == mem_read(c, addr) IN
    IF m < 0 THEN Panic(c, m) ELSE
    LET and_ == BitAnd(c.register_a, m, 8)
        c1 == IF and_ = 0 THEN set_flag(c, Zero, TRUE) ELSE set_flag(c, Zero, FALSE)
        c2 == set_flag(c1, Negative, BitAnd(m, 128, 8) > 0)
    IN  set_flag(c2, Overflow, BitAnd(m, 64, 8) > 0)

\* CPU::pha
pha(c, mode) == push_stack(c, c.register_a)

\* CPU::php
php(c, mode) ==
    LET c1 == push_stack(c, c.status)
    IN  IF c1.panic # "none" THEN c1
        ELSE set_flag(set_flag(c1, Break, TRUE), Break2, TRUE)

\* CPU::pla
pla(c, mode) ==
    LET r == pop_stack(c)
    IN  IF r.val < 0 THEN Panic(r.cpu, r.val)
        ELSE [r.cpu EXCEPT !.register_a = r.val]

\* CPU::plp
plp(c, mode) ==
    LET r == pop_stack(c)
    IN  IF r.val < 0 THEN Panic(r.cpu, r.val)
        ELSE set_flag(set_flag([r.cpu EXCEPT !.status = r.val], Break, FALSE),
                      Break2, TRUE)

\* a rol that shifts a 0 into bit 0 instead of Carry
rol_shifts_in_zero(c, mode) ==
    LET addr == fetch(c, mode) IN
    IF addr < 0 THEN Panic(c, addr) ELSE
    LET m == mem_read(c, addr) IN
    IF m < 0 THEN Panic(c, m) ELSE
    LET c1 == set_flag(c, Carry, BitAnd(m, \h80, 8) # 0)
        m1 == Wrap8(m * 2)
    IN  mem_write(set_zero_and_negative_flag(c1, m1), addr, m1)

\* CPU::rol
rol(c, mode) ==
    LET addr == fetch(c, mode) IN
    IF addr < 0 THEN Panic(c, addr) ELSE
    LET m == mem_read(c, addr) IN
    IF m < 0 THEN Panic(c, m) ELSE
    LET carry == IF get_flag(c, Carry) THEN 1 ELSE 0
        c1 == set_flag(c, Carry, BitAnd(m, \h80, 8) # 0)
        m1 == BitOr(Wrap8(m * 2), carry, 8)
    IN  mem_write(set_zero_and_negative_flag(c1, m1), addr, m1)

\* CPU::rol_a
rol_a(c, mode) ==
    LET carry == IF get_flag(c, Carry) THEN 1 ELSE 0
        c1 == set_flag(c, Carry, BitAnd(c.register_a, \h80, 8) # 0)
        a == BitOr(Wrap8(c.register_a * 2), carry, 8)
    IN  set_zero_and_negative_flag([c1 EXCEPT !.register_a = a], a)

\* CPU::ror
ror(c, mode) ==
    LET carry == IF get_flag(c, Carry) THEN 128 ELSE 0
        addr == fetch(c, mode)
    IN
    IF addr < 0 THEN Panic(c, addr) ELSE
    LET m == mem_read(c, addr) IN
    IF m < 0 THEN Panic(c, m) ELSE
    LET c1 == set_flag(c, Carry, BitAnd(m, \h01, 8) # 0)
        m1 == BitOr(m \div 2, carry, 8)
        c2 == mem_write(c1, addr, m1)
    IN  IF c2.panic # "none" THEN c2 ELSE set_zero_and_negative_flag(c2, m1)

\* CPU::ror_a
ror_a(c, mode) ==
    LET carry == IF get_flag(c, Carry) THEN 128 ELSE 0
        c1 == set_flag(c, Carry, BitAnd(c.register_a, \h01, 8) # 0)
        a == BitOr(c.register_a \div 2, carry, 8)
    IN  set_zero_and_negative_flag([c1 EXCEPT !.register_a = a], a)

\* CPU::rti
rti(c, mode) == c

\* RTS that adds one to the popped address
rts_adds_one(c, mode) ==
    LET r == pop_stack_u16(c)
    IN  IF r.val < 0 THEN Panic(r.cpu, r.val)
        ELSE [r.cpu EXCEPT !.program_counter = Wrap16(r.val + 1)]

\* CPU::rts
rts(c, mode) ==
    LET r == pop_stack_u16(c)
    IN  IF r.val < 0 THEN Panic(r.cpu, r.val)
        ELSE [r.cpu EXCEPT !.program_counter = r.val]

\* CPU::tsx
tsx(c, mode) ==
    set_zero_and_negative_flag([c EXCEPT !.register_x = c.stack_pointer], c.stack_pointer)

\* CPU::txa
txa(c, mode) ==
    set_zero_and_negative_flag([c EXCEPT !.register_a = c.register_x], c.register_x)

\* CPU::txs
txs(c, mode) ==
    set_zero_and_negative_flag([c EXCEPT !.stack_pointer = c.register_x], c.register_x)

\* CPU::tya
tya(c, mode) ==
    set_zero_and_negative_flag([c EXCEPT !.register_a = c.register_y], c.register_y)

\* CPU::tay
tay(c, mode) ==
    set_zero_and_negative_flag([c EXCEPT !.register_y = c.register_a], c.register_a)

\* CPU::tax
tax(c, mode) ==
    set_zero_and_negative_flag([c EXCEPT !.register_x = c.register_a], c.register_a)

\* a cpy that sets Carry only when Y is greater than the operand
cpy_carry_when_greater(c, mode) ==
    LET addr == fetch(c, mode) IN
    IF addr < 0 THEN Panic(c, addr) ELSE
    LET m == mem_read(c, addr) IN
    IF m < 0 THEN Panic(c, m) ELSE
    LET tmp == c.register_y - m
        c1 == set_flag(c, Zero, tmp = 0)
        c2 == set_flag(c1, Carry, tmp > 0)
    IN  set_flag(c2, Negative, tmp < 0)

\* CPU::cpy
cpy(c, mode) ==
    LET addr == fetch(c, mode) IN
    IF addr < 0 THEN Panic(c, addr) ELSE
    LET m == mem_read(c, addr) IN
    IF m < 0 THEN Panic(c, m) ELSE
    LET tmp == c.register_y - m
        c1 == set_flag(c, Zero, tmp = 0)
        c2 == set_flag(c1, Carry, tmp >= 0)
    IN  set_flag(c2, Negative, tmp < 0)

\* CPU::cpx
cpx(c, mode) ==
    LET addr == fetch(c, mode) IN
    IF addr < 0 THEN Panic(c, addr) ELSE
    LET m == mem_read(c, addr) IN
    IF m < 0 THEN Panic(c, m) ELSE
    LET tmp == c.register_x - m
        c1 == set_flag(c, Zero, tmp = 0)
        c2 == set_flag(c1, Carry, tmp >= 0)
    IN  set_flag(c2, Negative, tmp < 0)

\* cmp that takes Negative from bit 7 of the 8-bit difference
cmp_negative_from_bit_7(c, mode) ==
    LET addr == fetch(c, mode) IN
    IF addr < 0 THEN Panic(c, addr) ELSE
    LET m == mem_read(c, addr) IN
    IF m < 0 THEN Panic(c, m) ELSE
    LET tmp == c.register_a - m
        c1 == set_flag(c, Zero, tmp = 0)
        c2 == set_flag(c1, Carry, tmp >= 0)
    IN  set_flag(c2, Negative, Bit((tmp + 256) % 256, 7) = 1)

\* CPU::cmp
cmp(c, mode) ==
    LET addr == fetch(c, mode) IN
    IF addr < 0 THEN Panic(c, addr) ELSE
    LET m == mem_read(c, addr) IN
    IF m < 0 THEN Panic(c, m) ELSE
    LET tmp == c.register_a - m
        c1 == set_flag(c, Zero, tmp = 0)
        c2 == set_flag(c1, Carry, tmp >= 0)
    IN  set_flag(c2, Negative, tmp < 0)

\* CPU::lda
lda(c, mode) ==
    LET addr == fetch(c, mode) IN
    IF addr < 0 THEN Panic(c, addr) ELSE
    LET m == mem_read(c, addr) IN
    IF m < 0 THEN Panic(c, m) ELSE
    set_zero_and_negative_flag([c EXCEPT !.register_a = m], m)

\* CPU::ldx
ldx(c, mode) ==
    LET addr == fetch(c, mode) IN
    IF addr < 0 THEN Panic(c, addr) ELSE
    LET m == mem_read(c, addr) IN
    IF m < 0 THEN Panic(c, m) ELSE
    set_zero_and_negative_flag([c EXCEPT !.register_x = m], m)

\* CPU::ldy
ldy(c, mode) ==
    LET addr == fetch(c, mode) IN
    IF addr < 0 THEN Panic(c, addr) ELSE
    LET m == mem_read(c, addr) IN
    IF m < 0 THEN Panic(c, m) ELSE
    set_zero_and_negative_flag([c EXCEPT !.register_y = m], m)

\* CPU::sta
sta(c, mode) ==
    LET addr == fetch(c, mode)
    IN  IF addr < 0 THEN Panic(c, addr) ELSE mem_write(c, addr, c.register_a)

\* CPU::stx
stx(c, mode) ==
    LET addr == fetch(c, mode)
    IN  IF addr < 0 THEN Panic(c, addr) ELSE mem_write(c, addr, c.register_x)

\* CPU::sty
sty(c, mode) ==
    LET addr == fetch(c, mode)
    IN  IF addr < 0 THEN Panic(c, addr) ELSE mem_write(c, addr, c.register_y)

-----------------------------------------------------------------------------
(* opcodes.rs: the static opcode table (byte -> length, addressing mode)   *)

BranchOps ==
    {\h10, \h30, \h50, \h70, \h90, \hB0, \hD0, \hF0}

Len1Ops ==
    {\h00, \h08, \h0A, \h18, \h28, \h2A, \h38, \h40, \h48, \h4A, \h58,
    \h60, \h68, \h6A, \h78, \h88, \h8A, \h98, \h9A, \hA8, \hAA, \hB8,
    \hBA, \hC8, \hCA, \hD8, \hE8, \hEA, \hF8}

Len2Ops ==
    {\h01, \h05, \h06, \h09, \h10, \h11, \h15, \h16, \h21, \h24, \h25,
    \h26, \h29, \h30, \h31, \h35, \h36, \h41, \h45, \h46, \h49, \h50,
    \h51, \h55, \h56, \h61, \h65, \h66, \h69, \h70, \h71, \h75, \h76,
    \h81, \h84, \h85, \h86, \h90, \h91, \h94, \h95, \h96, \hA0, \hA1,
    \hA2, \hA4, \hA5, \hA6, \hA9, \hB0, \hB1, \hB4, \hB5, \hB6, \hC0,
    \hC1, \hC4, \hC5, \hC6, \hC9, \hD0, \hD1, \hD5, \hD6, \hE0, \hE1,
    \hE4, \hE5, \hE6, \hE9, \hF0, \hF1, \hF5, \hF6}

Len3Ops ==
    {\h0D, \h0E, \h19, \h1D, \h1E, \h20, \h2C, \h2D, \h2E, \h39, \h3D,
    \h3E, \h4C, \h4D, \h4E, \h59, \h5D, \h5E, \h6C, \h6D, \h6E, \h79,
    \h7D, \h7E, \h8C, \h8D, \h8E, \h99, \h9D, \hAC, \hAD, \hAE, \hB9,
    \hBC, \hBD, \hBE, \hCC, \hCD, \hCE, \hD9, \hDD, \hDE, \hEC, \hED,
    \hEE, \hF9, \hFD, \hFE}

\* the bytes the table has a descriptor for
OPCODES_MAP == Len1Ops \cup Len2Ops \cup Len3Ops

\* OpCode.len
OpLen(op) ==
    CASE op \in Len1Ops -> 1
      [] op \in Len2Ops -> 2
      [] op \in Len3Ops -> 3

\* OpCode.mode
OpMode(op) ==
    CASE op \in {\h09, \h29, \h49, \h69, \hA0, \hA2, \hA9, \hC0, \hC9, \hE0, \hE9}
            -> "Immediate"
      [] op \in {\h05, \h06, \h24, \h25, \h26, \h45, \h46, \h65, \h66, \h84, \h85,
                \h86, \hA4, \hA5, \hA6, \hC4, \hC5, \hC6, \hE4, \hE5, \hE6}
            -> "ZeroPage"
      [] op \in {\h15, \h16, \h35, \h36, \h55, \h56, \h75, \h76, \h94, \h95, \hB4,
                \hB5, \hD5, \hD6, \hF5, \hF6}
            -> "ZeroPage_X"
      [] op \in {\h96, \hB6}
            -> "ZeroPage_Y"
      [] op \in {\h0D, \h0E, \h20, \h2C, \h2D, \h2E, \h4C, \h4D, \h4E, \h6D, \h6E,
                \h8C, \h8D, \h8E, \hAC, \hAD, \hAE, \hCC, \hCD, \hCE, \hEC, \hED,
                \hEE}
            -> "Absolute"
      [] op \in {\h1D, \h1E, \h3D, \h3E, \h5D, \h5E, \h7D, \h7E, \h9D, \hBC, \hBD,
                \hDD, \hDE, \hFD, \hFE}
            -> "Absolute_X"
      [] op \in {\h19, \h39, \h59, \h79, \h99, \hB9, \hBE, \hD9, \hF9}
            -> "Absolute_Y"
      [] op \in {\h6C}
            -> "Indirect"
      [] op \in {\h01, \h21, \h41, \h61, \h81, \hA1, \hC1, \hE1}
            -> "Indirect_X"
      [] op \in {\h11, \h31, \h51, \h71, \h91, \hB1, \hD1, \hF1}
            -> "Indirect_Y"
      [] OTHER -> "NoneAddressing"

-----------------------------------------------------------------------------
(* cpu.rs: load and the run loop                                            *)

\* the `match code` of run_with_callback, for every arm but `0x00 => return`
dispatch(c, op) ==
    LET mode == OpMode(op) IN
    CASE op \in {\hA2, \hA6, \hB6, \hAE, \hBE} -> ldx(c, mode)
      [] op \in {\hA0, \hA4, \hB4, \hAC, \hBC} -> ldy(c, mode)
      [] op \in {\h86, \h96, \h8E} -> stx(c, mode)
      [] op \in {\h84, \h94, \h8C} -> sty(c, mode)
      [] op \in {\h85, \h95, \h8D, \h9D, \h99, \h81, \h91} -> sta(c, mode)
      [] op \in {\hA9, \hA5, \hB5, \hAD, \hBD, \hB9, \hA1, \hB1} -> lda(c, mode)
      [] op \in {\hAA} -> tax(c, mode)
      [] op \in {\hA8} -> tay(c, mode)
      [] op \in {\h8A} -> txa(c, mode)
      [] op \in {\h98} -> tay(c, mode)
      [] op \in {\h08} -> php(c, mode)
      [] op \in {\h48} -> pha(c, mode)
      [] op \in {\h68} -> pla(c, mode)
      [] op \in {\h28} -> plp(c, mode)
      [] op \in {\hBA} -> tsx(c, mode)
      [] op \in {\h9A} -> txs(c, mode)
      [] op \in {\h29, \h25, \h35, \h2D, \h3D, \h39, \h21, \h31} -> and(c, mode)
      [] op \in {\h49, \h45, \h55, \h4D, \h5D, \h59, \h41, \h51} -> eor(c, mode)
      [] op \in {\h09, \h05, \h15, \h0D, \h1D, \h19, \h01, \h11} -> ora(c, mode)
      [] op \in {\h24, \h2C} -> bit(c, mode)
      [] op \in {\hE9, \hE5, \hF5, \hED, \hFD, \hF9, \hE1, \hF1} -> sbc(c, mode)
      [] op \in {\h69, \h65, \h75, \h6D, \h7D, \h79, \h61, \h71} -> adc(c, mode)
      [] op \in {\hC9, \hC5, \hD5, \hCD, \hDD, \hD9, \hC1, \hD1} -> cmp(c, mode)
      [] op \in {\hE0, \hE4, \hEC} -> cpx(c, mode)
      [] op \in {\hC0, \hC4, \hCC} -> cpy(c, mode)
      [] op \in {\hE8} -> inx(c, mode)
      [] op \in {\hC8} -> iny(c, mode)
      [] op \in {\h88} -> dey(c, mode)
      [] op \in {\hCA} -> dex(c, mode)
      [] op \in {\hE6, \hF6, \hEE, \hFE} -> inc(c, mode)
      [] op \in {\hC6, \hD6, \hCE, \hDE} -> dec(c, mode)
      [] op \in {\h0A} -> asl_a(c, mode)
      [] op \in {\h4A} -> lsr_a(c, mode)
      [] op \in {\h6A} -> ror_a(c, mode)
      [] op \in {\h2A} -> rol_a(c, mode)
      [] op \in {\h06, \h16, \h0E, \h1E} -> asl(c, mode)
      [] op \in {\h66, \h76, \h6E, \h7E} -> ror(c, mode)
      [] op \in {\h26, \h36, \h2E, \h3E} -> rol(c, mode)
      [] op \in {\h46, \h56, \h4E, \h5E} -> lsr(c, mode)
      [] op \in {\h60} -> rts(c, mode)
      [] op \in {\h20} -> jsr(c, mode)
      [] op \in {\h4C, \h6C} -> jmp(c, mode)
      [] op = \h70 -> branch(c, get_flag(c, Overflow) = TRUE)
      [] op = \h50 -> branch(c, get_flag(c, Overflow) = FALSE)
      [] op = \h30 -> branch(c, get_flag(c, Negative) = TRUE)
      [] op = \h10 -> branch(c, get_flag(c, Negative) = FALSE)
      [] op = \hF0 -> branch(c, get_flag(c, Zero) = TRUE)
      [] op = \hD0 -> branch(c, get_flag(c, Zero) = FALSE)
      [] op = \hB0 -> branch(c, get_flag(c, Carry) = TRUE)
      [] op = \h90 -> branch(c, get_flag(c, Carry) = FALSE)
      [] op = \h18 -> clc(c, mode)
      [] op = \hD8 -> cld(c, mode)
      [] op = \h58 -> cli(c, mode)
      [] op = \hB8 -> clv(c, mode)
      [] op = \h38 -> sec(c, mode)
      [] op = \hF8 -> sed(c, mode)
      [] op = \h78 -> sei(c, mode)
      [] op = \hEA -> c
      [] op = \h40 -> rti(c, mode)
      [] OTHER -> c

\* the address load copies the program to
LOAD_BASE == \h0600

\* program.len() as u16
LenU16(p) == Len(p) % 65536

\* load that copies the program to 0x8000
load_write_at_8000(c, p, k) ==
    LET addr == AddU16(\h8000, k)
    IN  IF addr < 0 THEN Panic(c, addr) ELSE mem_write(c, addr, p[k + 1])

\* one iteration of load's for loop: mem_write(0x0600 + i, program[i])
load_write(c, p, k) ==
    LET addr == AddU16(LOAD_BASE, k)
    IN  IF addr < 0 THEN Panic(c, addr) ELSE mem_write(c, addr, p[k + 1])

\* a load that ends with reset(), so that the registers start from the reset
\* values
load_finish_resets(c) ==
    LET c1 == mem_write_u16(c, \hFFFC, LOAD_BASE)
    IN  IF c1.panic # "none" THEN c1
        ELSE [reset(c1) EXCEPT !.program_counter = LOAD_BASE]

\* load after its loop: the reset vector and PC
load_finish(c) ==
    LET c1 == mem_write_u16(c, \hFFFC, LOAD_BASE)
    IN  IF c1.panic # "none" THEN c1 ELSE [c1 EXCEPT !.program_counter = LOAD_BASE]

\* the loop's `self.program_counter += 1` after the fetch
pc_after_fetch(c) == AddU16(c.program_counter, 1)

\* a PC-advance rule that adds the whole length of the instruction
advance_by_len(c, state, op) ==
    IF state = c.program_counter
    THEN LET n == AddU16(c.program_counter, OpLen(op))
         IN  IF n < 0 THEN Panic(c, n) ELSE [c EXCEPT !.program_counter = n]
    ELSE c

\* the loop's PC-advance rule, after the handler
advance(c, state, op) ==
    IF state = c.program_counter
    THEN LET n == AddU16(c.program_counter, OpLen(op) - 1)
         IN  IF n < 0 THEN Panic(c, n) ELSE [c EXCEPT !.program_counter = n]
    ELSE c

\* where the loop goes after the PC-advance rule: back to its top, the callback
after_advance == "callback"

\* where the loop goes after the callback: the fetch
after_callback == "fetch"

\* where a fetched BRK leads
on_brk == "returned"

\* the record of a JSR at address s that took the CPU from c to d
Called(m, c, d, s) ==
    LET p == c.stack_pointer
        e == [s |-> s,
              hi |-> mem_read(d, STACK + p),
              lo |-> mem_read(d, STACK + Wrap8(p + 255))]
    IN  [k \in (DOMAIN m) \cup {p} |-> IF k = p THEN e ELSE m[k]]

\* the number of cells of the stack page 0x0100..0x01FF
StackSize == 256

\* the most pushes that are kept on record: beyond it the oldest is forgotten
MaxPushes == 258

\* the record of a PHA or PHP that took the CPU from c to d: the byte it wrote,
\* SP before it, and the most bytes that have been above it since (at 256 the
\* stack page has wrapped onto its cell)
Pushed(m, c, d) ==
    LET e == [byte |-> mem_read(d, STACK + c.stack_pointer),
              sp |-> c.stack_pointer,
              above |-> 0]
        kept == IF Len(m) >= MaxPushes THEN Tail(m) ELSE m
        n == Len(kept)
    IN  Append([k \in 1..n |->
                   [kept[k] EXCEPT !.above =
                       IF n + 1 - k > @
                       THEN (IF n + 1 - k > StackSize THEN StackSize ELSE n + 1 - k)
                       ELSE @]],
               e)

\* the record after a PLA or PLP
Pulled(m) == IF m = <<>> THEN m ELSE SubSeq(m, 1, Len(m) - 1)

Where(c, next) == IF c.panic # "none" THEN "panicked" ELSE next

LoadWrite ==
    /\ pc = "load"
    /\ i < LenU16(program)
    /\ cpu' = load_write(cpu, program, i)
    /\ i' = i + 1
    /\ pc' = Where(cpu', "load")
    /\ UNCHANGED <<inputs, code, program_counter_state, start, pre,
                   reset_called, calls, callbacks_since_fetch,
                   callback_set_pc,
                   pushes, word_read>>

LoadFinish ==
    /\ pc = "load"
    /\ i >= LenU16(program)
    /\ cpu' = load_finish(cpu)
    /\ pc' = Where(cpu', "loaded")
    /\ UNCHANGED <<inputs, i, code, program_counter_state, start, pre,
                   reset_called, calls, callbacks_since_fetch,
                   callback_set_pc,
                   pushes, word_read>>

\* the caller calls reset() after load
Reset ==
    /\ pc = "loaded"
    /\ pre' = cpu
    /\ cpu' = reset(cpu)
    /\ pc' = Where(cpu', "reset")
    /\ reset_called' = TRUE
    /\ UNCHANGED <<inputs, i, code, program_counter_state, start, calls,
                   callbacks_since_fetch, callback_set_pc,
                   pushes, word_read>>

\* the caller calls run() or run_with_callback()
Run ==
    /\ pc \in {"loaded", "reset"}
    /\ pc' = "callback"
    /\ UNCHANGED <<inputs, cpu, i, code, program_counter_state, start, pre,
                   reset_called, calls, callbacks_since_fetch,
                   callback_set_pc,
                   pushes, word_read>>

\* callback(self): the caller's closure; it leaves the CPU alone or sets PC
Callback ==
    /\ pc = "callback"
    /\ \E t \in callback_pcs \cup {-1} :
          /\ cpu' = IF t = -1 THEN cpu ELSE [cpu EXCEPT !.program_counter = t]
          /\ callback_set_pc' = (t # -1)
    /\ callbacks_since_fetch' = callbacks_since_fetch + 1
    /\ pc' = after_callback
    /\ UNCHANGED <<inputs, i, code, program_counter_state, start, pre,
                   reset_called, calls,
                   pushes, word_read>>

\* let code = mem_read(pc); pc += 1; let program_counter_state = pc
Fetch ==
    /\ pc = "fetch"
    /\ LET op == mem_read(cpu, cpu.program_counter)
           n == pc_after_fetch(cpu)
       IN  /\ cpu' = IF op < 0 THEN Panic(cpu, op)
                     ELSE IF n < 0 THEN Panic(cpu, n)
                     ELSE [cpu EXCEPT !.program_counter = n]
           /\ code' = IF op < 0 THEN code ELSE op
           /\ program_counter_state' = IF cpu'.panic # "none"
                                       THEN program_counter_state ELSE n
    /\ start' = cpu.program_counter
    /\ pre' = cpu
    /\ callbacks_since_fetch' = 0
    /\ pc' = Where(cpu', "decode")
    /\ UNCHANGED <<inputs, i, reset_called, calls, callback_set_pc,
                   pushes, word_read>>

\* a decode step that lets a byte without a descriptor through to the match
Decode_lets_unknown_through ==
    /\ pc = "decode"
    /\ cpu' = cpu
    /\ pc' = Where(cpu', "execute")
    /\ UNCHANGED <<inputs, i, code, program_counter_state, start, pre,
                   reset_called, calls, callbacks_since_fetch,
                   callback_set_pc,
                   pushes, word_read>>

\* opcodes.get(&code).expect(..)
Decode ==
    /\ pc = "decode"
    /\ cpu' = IF code \in OPCODES_MAP THEN cpu ELSE [cpu EXCEPT !.panic = "expect"]
    /\ pc' = Where(cpu', "execute")
    /\ UNCHANGED <<inputs, i, code, program_counter_state, start, pre,
                   reset_called, calls, callbacks_since_fetch,
                   callback_set_pc,
                   pushes, word_read>>

\* a match whose 0x00 arm pushes PC and P and sets Interrupt before it returns
Execute_brk_pushes ==
    /\ pc = "execute"
    /\ cpu' = IF code = \h00
              THEN LET c1 == push_stack_u16(cpu, Wrap16(cpu.program_counter + 1))
                       c2 == push_stack(c1, cpu.status)
                   IN  set_flag(c2, Interrupt, TRUE)
              ELSE dispatch(cpu, code)
    /\ pc' = IF code = \h00 THEN on_brk ELSE Where(cpu', "advance")
    /\ calls' = IF code = \h20 /\ cpu'.panic = "none"
                THEN Called(calls, cpu, cpu', start)
                ELSE calls
    /\ pushes' = IF cpu'.panic # "none" THEN pushes
                 ELSE IF code \in {\h48, \h08} THEN Pushed(pushes, cpu, cpu')
                 ELSE IF code \in {\h68, \h28} THEN Pulled(pushes)
                 ELSE pushes
    /\ UNCHANGED <<inputs, i, code, program_counter_state, start, pre,
                   reset_called, callbacks_since_fetch, callback_set_pc,
                   word_read>>

\* match code { .. }
Execute ==
    /\ pc = "execute"
    /\ cpu' = IF code = \h00 THEN cpu ELSE dispatch(cpu, code)
    /\ pc' = IF code = \h00 THEN on_brk ELSE Where(cpu', "advance")
    /\ calls' = IF code = \h20 /\ cpu'.panic = "none"
                THEN Called(calls, cpu, cpu', start)
                ELSE calls
    /\ pushes' = IF cpu'.panic # "none" THEN pushes
                 ELSE IF code \in {\h48, \h08} THEN Pushed(pushes, cpu, cpu')
                 ELSE IF code \in {\h68, \h28} THEN Pulled(pushes)
                 ELSE pushes
    /\ UNCHANGED <<inputs, i, code, program_counter_state, start, pre,
                   reset_called, callbacks_since_fetch, callback_set_pc,
                   word_read>>

\* if program_counter_state == self.program_counter { .. }
Advance ==
    /\ pc = "advance"
    /\ cpu' = advance(cpu, program_counter_state, code)
    /\ pc' = Where(cpu', after_advance)
    /\ UNCHANGED <<inputs, i, code, program_counter_state, start, pre,
                   reset_called, calls, callbacks_since_fetch,
                   callback_set_pc,
                   pushes, word_read>>

Next ==
    \/ LoadWrite
    \/ LoadFinish
    \/ Reset
    \/ Run
    \/ Callback
    \/ Fetch
    \/ Decode
    \/ Execute
    \/ Advance

-----------------------------------------------------------------------------
(* Initial states: CPU::new(Bus::new()), then what the caller sets through *)
(* the public fields and mem_write before it calls load.                    *)

\* the caller's mem_write calls, one per preset cell, in address order
RECURSIVE Preset(_, _)
Preset(c, cells) ==
    IF DOMAIN cells = {} THEN c
    ELSE LET a == CHOOSE x \in DOMAIN cells : \A y \in DOMAIN cells : x <= y
         IN  Preset(mem_write(c, a, cells[a]),
                    [k \in (DOMAIN cells) \ {a} |-> cells[k]])

Scenario(p, a, x, y, sp, st, cells, cbs) ==
    [program |-> p, a |-> a, x |-> x, y |-> y, sp |-> sp, status |-> st,
     cells |-> cells, cbs |-> cbs]

InitOf(scenarios) ==
    \E s \in scenarios :
        /\ cpu = [Preset(new(Bus_new), s.cells) EXCEPT
                     !.register_a = s.a, !.register_x = s.x, !.register_y = s.y,
                     !.stack_pointer = s.sp, !.status = s.status]
        /\ program = s.program
        /\ callback_pcs = s.cbs
        /\ pc = "load"
        /\ i = 0
        /\ code = 0
        /\ program_counter_state = 0
        /\ overflow_checks \in BOOLEAN
        /\ start = 0
        /\ pre = cpu
        /\ reset_called = FALSE
        /\ calls = <<>>
        /\ callbacks_since_fetch = 0
        /\ callback_set_pc = FALSE
        /\ pushes = <<>>
        /\ word_pos = 0
        /\ word_data = 0
        /\ word_read = 0

NoCells == <<>>

\* the concrete scenarios of the tests, and programs that leave RAM or abort
Programs ==
    { <<\hA9, \h05, \h00>>,                                \* LDA #5
      <<\hE8, \hE8, \h00>>,                                \* INX; INX
      <<\hA9, \hAA, \h08, \h48, \h28, \h68, \h00>>,        \* test_stack_function
      <<\hA2, \h08, \hCA, \h8E, \h00, \h02, \hE0, \h03,
        \hD0, \hF8, \h8E, \h01, \h02, \h00>>,              \* test_bne
      <<\h20, \h05, \h06, \h00, \h00, \hE8, \h60>>,        \* JSR $0605 .. INX; RTS
      <<\h4C, \hFF, \hFF>>,                                \* JMP $FFFF
      <<\h4C, \h00, \h40>>,                                \* JMP $4000
      <<\hEA, \h02>>,                                      \* NOP; an unknown byte
      <<\hAD, \hFF, \h3F, \h00>>,                          \* LDA $3FFF
      <<\h8D, \h00, \h20, \h00>>,                          \* STA $2000
      <<\h98, \hA8, \h00>> }                               \* TYA; TAY

\* the PC values a breakpoint callback sets: a RAM cell holding 0, the last
\* address, an address past RAM
BreakPcs == {\h0700, \hFFFF, \h4000}

Scenarios ==
    { Scenario(p, a, x, y, sp, st, NoCells, cbs) :
        p \in Programs, a \in {0, \h80}, x \in {0, \hFF}, y \in {0, 5},
        sp \in {0, \hFD}, st \in {0, \hFF}, cbs \in {{}, BreakPcs} }

Init == InitOf(Scenarios)

Spec == Init /\ [][Next]_vars

TypeOK ==
    /\ cpu.register_a \in U8 /\ cpu.register_x \in U8 /\ cpu.register_y \in U8
    /\ cpu.stack_pointer \in U8 /\ cpu.status \in U8
    /\ cpu.program_counter \in 0..65535
    /\ \A k \in DOMAIN cpu.bus : k \in 0..2047 /\ cpu.bus[k] \in 1..255
    /\ cpu.panic \in {"none", "todo", "overflow", "mode", "expect"}
    /\ pc \in {"load", "loaded", "reset", "callback", "fetch", "decode",
               "execute", "advance", "returned", "panicked"}
    /\ (pc = "panicked") = (cpu.panic # "none")

-----------------------------------------------------------------------------
(* Branches                                                                 *)

\* JMP $addr
JmpTo(addr) == <<\h4C, addr % 256, addr \div 256>>

\* a program that reaches a two-byte instruction <<op, operand>> placed at s:
\* the instruction itself when s is the load base, else a JMP to preset cells
Placed(s, op, operand, a, x, y, sp, st) ==
    IF s = LOAD_BASE
    THEN Scenario(<<op, operand>>, a, x, y, sp, st, NoCells, {})
    ELSE Scenario(JmpTo(s), a, x, y, sp, st,
                  [k \in {s} \cup ({s + 1} \cap 0..RAM_MIRRORS_END) |->
                      IF k = s THEN op ELSE operand], {})

\* where a branch is placed: the load base, address 0 (targets below it wrap),
\* the last cell of the first RAM image, the last RAM address
BranchStarts == {\h0000, \h07FF, \h1FFF}
EdgeOffsets == {\h00, \h01, \h7F, \h80, \hFC, \hFD, \hFE, \hFF}
\* N, V, Z, C all clear, or all set
BranchStatus == {\h00, \hC3}

BranchScenarios ==
    { Placed(LOAD_BASE, op, off, 0, 0, 0, \hFD, st) :
        op \in BranchOps, off \in U8, st \in BranchStatus }
    \cup
    { Placed(sc[1], sc[2], sc[3], 0, 0, 0, \hFD, sc[4]) :
        sc \in BranchStarts \X BranchOps \X EdgeOffsets \X BranchStatus }

InitBranch == InitOf(BranchScenarios)

SpecBranch == InitBranch /\ [][Next]_vars

\* the flag condition of a branch opcode, as the instruction set defines it
BranchCondition(c, op) ==
    CASE op = \h10 -> ~get_flag(c, Negative)
      [] op = \h30 -> get_flag(c, Negative)
      [] op = \h50 -> ~get_flag(c, Overflow)
      [] op = \h70 -> get_flag(c, Overflow)
      [] op = \h90 -> ~get_flag(c, Carry)
      [] op = \hB0 -> get_flag(c, Carry)
      [] op = \hD0 -> ~get_flag(c, Zero)
      [] op = \hF0 -> get_flag(c, Zero)

\* a byte as a signed 8-bit offset
Signed(b) == IF b >= 128 THEN b - 256 ELSE b

\* the loop has finished the instruction fetched at `start`
InstructionDone == pc = "callback" /\ pre.panic = "none" /\ code # \h00

\* C1: a taken branch at `start` with signed offset o leaves PC, and so the
\* next opcode fetch, at (start + 2 + o) mod 65536, for every o in -128..127
C1_TakenBranchTarget ==
    (InstructionDone /\ code \in BranchOps /\ BranchCondition(pre, code))
        => cpu.program_counter =
              (start + 2 + Signed(mem_read(pre, start + 1)) + 65536) % 65536

-----------------------------------------------------------------------------
(* JMP                                                                      *)

\* the pages a jump target is drawn from: RAM and its mirrors, the PPU range,
\* the unmapped range up to the last page
TargetPages == {\h00, \h06, \h07, \h1F, \h20, \h3F, \h40, \hFF}
JumpTargets == { hi * 256 + lo : hi \in TargetPages, lo \in U8 }

\* zero-page cells that hold the pointer of JMP (ptr)
Pointers == {\h10, \hFE}
IndirectTargets ==
    { hi * 256 + lo : hi \in TargetPages,
                      lo \in {\h00, \h01, \h02, \h03, \h80, \hFE, \hFF} }

JumpScenarios ==
    { Scenario(JmpTo(t), 0, 0, 0, \hFD, 0, NoCells, {}) : t \in JumpTargets }
    \cup
    { Scenario(<<\h6C, sc[1], \h00>>, 0, 0, 0, \hFD, 0,
               [k \in {sc[1], sc[1] + 1} |->
                   IF k = sc[1] THEN sc[2] % 256 ELSE sc[2] \div 256], {}) :
        sc \in Pointers \X IndirectTargets }

InitJump == InitOf(JumpScenarios)

SpecJump == InitJump /\ [][Next]_vars

\* the little-endian 16-bit value at pos, as the bus contract defines it
LittleEndianAt(c, pos) == mem_read(c, pos) + 256 * mem_read(c, Wrap16(pos + 1))

\* the effective address of the JMP fetched at `start`, per its addressing mode
JmpEffectiveAddress ==
    IF code = \h4C THEN LittleEndianAt(pre, start + 1)
    ELSE LittleEndianAt(pre, mem_read(pre, start + 1))

\* C2: after JMP (0x4C or 0x6C) the next opcode is fetched from the effective
\* address, whatever that address is: the run loop adds nothing to it
C2_JmpTarget ==
    (InstructionDone /\ code \in {\h4C, \h6C})
        => cpu.program_counter = JmpEffectiveAddress

-----------------------------------------------------------------------------
(* JSR and RTS                                                              *)

\* JSR $addr
JsrTo(addr) == <<\h20, addr % 256, addr \div 256>>

CallPrograms ==
    { \* JSR $0604; BRK; RTS
      JsrTo(\h0604) \o <<\h00, \h60>>,
      \* 0600 JSR $0607; INX; BRK; ..  0607 JSR $060C; INY; RTS  060C LDA #1; RTS
      JsrTo(\h0607) \o <<\hE8, \h00, \h00, \h00>> \o
          JsrTo(\h060C) \o <<\hC8, \h60>> \o <<\hA9, \h01, \h60>>,
      \* three levels deep
      JsrTo(\h0604) \o <<\h00>> \o JsrTo(\h0608) \o <<\h60>> \o
          JsrTo(\h060C) \o <<\h60>> \o <<\hE8, \h60>>,
      \* the subroutine pushes before it returns: SP differs at the RTS
      JsrTo(\h0604) \o <<\h00, \h48, \h60>>,
      \* the subroutine pulls and pushes the low return byte back
      JsrTo(\h0604) \o <<\h00, \h68, \h48, \h60>>,
      \* the subroutine overwrites the low return byte: PLA; LDA #$10; PHA; RTS
      JsrTo(\h0604) \o <<\h00, \h68, \hA9, \h10, \h48, \h60>>,
      \* JSR to its own operand
      JsrTo(\h0601) \o <<\h60>>,
      \* unbounded recursion: the stack wraps
      JsrTo(\h0600),
      \* RTS with no call
      <<\h60>> }

\* subroutines outside the loaded program: an RTS preset at the target
CallTargets == {\h0000, \h00FF, \h0300, \h07FF, \h0800, \h1FFF, \h2000, \h4000}
CallStackPointers == {\hFD, \h00, \h01, \hFF, \h80}

CallScenarios ==
    { Scenario(p, 0, 0, 0, sp, 0, NoCells, {}) :
        p \in CallPrograms, sp \in CallStackPointers }
    \cup
    { Scenario(JsrTo(t) \o <<\h00>>, 0, 0, 0, sp, 0,
               [k \in {t} \cap 0..RAM_MIRRORS_END |-> \h60], {}) :
        t \in CallTargets, sp \in CallStackPointers }
    \cup
    \* a JSR away from the load base, reached by a JMP
    { Scenario(JmpTo(s), 0, 0, 0, sp, 0,
               [k \in {s, s + 1, s + 2, s + 3, \h0040} |->
                   CASE k = s -> \h20 [] k = s + 1 -> \h40 [] k = s + 2 -> \h00
                     [] k = s + 3 -> \h00 [] k = \h0040 -> \h60], {}) :
        s \in {\h0010, \h07FA, \h1F00}, sp \in CallStackPointers }

InitCall == InitOf(CallScenarios)

SpecCall == InitCall /\ [][Next]_vars

\* the RTS fetched last ran with SP at its value on entry to the subroutine
\* that the JSR recorded under p called, and the two return bytes as that JSR
\* left them
ReturnsFrom(p) ==
    /\ p \in DOMAIN calls
    /\ pre.stack_pointer = Wrap8(p + 254)
    /\ mem_read(pre, STACK + p) = calls[p].hi
    /\ mem_read(pre, STACK + Wrap8(p + 255)) = calls[p].lo

\* C3: an RTS that runs with SP as on subroutine entry and the return bytes
\* untouched continues at s + 3, s the address of the JSR, with SP as it was
\* before that JSR; nested calls included
C3_JsrRtsPair ==
    (InstructionDone /\ code = \h60)
        => \A p \in U8 :
              ReturnsFrom(p) =>
                  /\ cpu.program_counter = Wrap16(calls[p].s + 3)
                  /\ cpu.stack_pointer = p

\* an inner call has returned and now the outer one returns, after a stack wrap
C3_Witness ==
    /\ InstructionDone /\ code = \h60
    /\ \E p \in U8 :
          /\ ReturnsFrom(p)
          /\ Wrap8(p + 254) \in DOMAIN calls
          /\ calls[Wrap8(p + 254)].s > calls[p].s
          /\ cpu.program_counter = calls[p].s + 3

\* the JSR handler has run
JsrHandled == pc = "advance" /\ code = \h20

\* what the JSR handler leaves when it pushes the 16-bit value v
JsrPushed(v) ==
    /\ mem_read(cpu, STACK + pre.stack_pointer) = v \div 256
    /\ mem_read(cpu, STACK + Wrap8(pre.stack_pointer + 255)) = v % 256
    /\ cpu.stack_pointer = Wrap8(pre.stack_pointer + 254)
    /\ cpu.program_counter = LittleEndianAt(pre, program_counter_state)

\* C4 as stated: JSR pushes PC + 1 (PC the address of its first operand byte),
\* high byte first, SP decremented by 2 modulo 256, PC set to the target
C4_JsrPushesPcPlus1 ==
    JsrHandled => JsrPushed(Wrap16(program_counter_state + 1))

\* C4 amended: the value pushed is PC + 2, the address after the JSR
C4_JsrPushesPcPlus2 ==
    JsrHandled => JsrPushed(Wrap16(program_counter_state + 2))

\* a JSR has run with SP = 0: the high byte went to 0x0100, the low to 0x01FF
C4_Witness ==
    /\ JsrHandled
    /\ pre.stack_pointer = 0
    /\ cpu.stack_pointer = \hFE
    /\ mem_read(cpu, \h01FF) = (start + 3) % 256

-----------------------------------------------------------------------------
(* The run loop and its callback                                            *)

\* the loop is about to fetch a byte that reads as 0x00 (BRK)
AtBrk == pc = "fetch" /\ mem_read(cpu, cpu.program_counter) = \h00

\* a fetched 0x00 goes to `return` with no handler run in between
BrkReturns ==
    /\ (pc = "decode" /\ code = \h00) => (pc' = "execute" /\ cpu' = cpu)
    /\ (pc = "execute" /\ code = \h00) => (pc' = "returned" /\ cpu' = cpu)

\* C5: run returns exactly when the byte fetched at PC is 0x00: that fetch
\* leads to the return with no handler run, and nothing else leads to it
C5_ReturnsExactlyOnBrk ==
    [][ /\ AtBrk => (pc' = "decode" /\ code' = \h00)
        /\ BrkReturns
        /\ (pc' = "returned") => (pc = "execute" /\ code = \h00) ]_vars

\* C6: the callback runs exactly once before every fetch and never between a
\* fetch and the end of the instruction; when it has set PC to a cell that
\* holds 0x00, run returns in that iteration with no instruction executed
C6_CallbackBeforeEveryFetch ==
    [][ /\ (pc' = "fetch") => (pc = "callback" /\ callbacks_since_fetch' = 1)
        /\ (pc' \in {"decode", "execute", "advance"})
              => callbacks_since_fetch' = 0
        /\ (AtBrk /\ callback_set_pc) => (pc' = "decode" /\ code' = \h00)
        /\ BrkReturns ]_vars

-----------------------------------------------------------------------------
(* reset                                                                    *)

\* C9: after reset() A = X = Y = 0, P = 0, SP = 0xFD, PC = read_u16(0xFFFC),
\* and memory is as it was
C9_Reset ==
    (pc = "reset")
        => /\ cpu.register_a = 0 /\ cpu.register_x = 0 /\ cpu.register_y = 0
           /\ cpu.status = 0
           /\ cpu.stack_pointer = \hFD
           /\ cpu.program_counter = LittleEndianAt(pre, \hFFFC)
           /\ cpu.bus = pre.bus

\* reset() has run on a CPU whose registers, status and SP all held other values
C9_Witness ==
    /\ pc = "reset"
    /\ pre.register_a # 0 /\ pre.register_x # 0 /\ pre.register_y # 0
    /\ pre.status # 0 /\ pre.stack_pointer # \hFD
    /\ pre.program_counter # cpu.program_counter
    /\ pre.bus # <<>>

-----------------------------------------------------------------------------
(* Register transfers                                                       *)

\* C10: TYA (0x98) copies Y into A, leaves Y alone, and sets Zero and Negative
\* from the new A
C10_Tya ==
    (InstructionDone /\ code = \h98)
        => /\ cpu.register_a = pre.register_y
           /\ cpu.register_y = pre.register_y
           /\ get_flag(cpu, Zero) = (cpu.register_a = 0)
           /\ get_flag(cpu, Negative) = (cpu.register_a >= 128)

-----------------------------------------------------------------------------
(* load                                                                     *)

\* the number of bytes of CPU RAM
RamSize == 2048

\* the longest program handed to load
MaxProgramLen == 2049

\* a program of n bytes: a NOP, then zeroes, and a mark in its last byte
Filled(n) == [k \in 1..n |-> IF k = 1 THEN \hEA ELSE IF k = n THEN \h01 ELSE 0]

LoadPrograms ==
    { <<>>, <<\hEA>>, <<\hA9, \h05, \h00>> }
    \cup { Filled(n) : n \in {512, 513, RamSize, MaxProgramLen} }

\* cells the caller wrote before load: inside and outside the load area
LoadCells == { NoCells, (\h0600 :> \hFF) @@ (\h0601 :> \hFF) @@ (\h05FF :> \h07) }

LoadScenarios ==
    { Scenario(p, a, 0, 0, sp, 0, cells, {}) :
        p \in LoadPrograms, a \in {0, \h55}, sp \in {0, \hFD}, cells \in LoadCells }

InitLoad == InitOf(LoadScenarios)

SpecLoad == InitLoad /\ [][Next]_vars

\* load has returned and every byte of the program reads back from 0x0600 on
LoadedVerbatim ==
    /\ \A k \in 0..(Len(program) - 1) :
          mem_read(cpu, \h0600 + k) = program[k + 1]
    /\ cpu.program_counter = \h0600

\* C7 as stated: after load(bytes), for every i < len(bytes) a read of
\* 0x0600 + i returns bytes[i], and PC = 0x0600
C7_LoadVerbatim == (pc = "loaded") => LoadedVerbatim

\* C7 amended: the same for programs that fit the 2 KiB of CPU RAM
C7_LoadVerbatimWithinRam ==
    (pc = "loaded" /\ Len(program) <= RamSize) => LoadedVerbatim

\* a program of exactly 2048 bytes has been loaded over cells the caller set
C7_Witness ==
    /\ pc = "loaded"
    /\ Len(program) = RamSize
    /\ pre.bus # <<>>
    /\ mem_read(cpu, \h0600 + RamSize - 1) = \h01

\* C8: after load the reset vector holds the load base: read_u16(0xFFFC)
\* is 0x0600, and a reset() after load sets PC to 0x0600
C8_ResetVectorAfterLoad ==
    /\ (pc = "loaded") => mem_read_u16(cpu, \hFFFC) = \h0600
    /\ (pc = "reset") => cpu.program_counter = \h0600

-----------------------------------------------------------------------------
(* The stack: PHA, PHP, PLA, PLP                                            *)

\* values for A, for P and for the cell a lone pull reads
StackBytes == {\h00, \h01, \h10, \h20, \h30, \h7F, \h80, \hCF, \hFF}

\* SP at the start: the reset value and both ends of the page
StackPointers == {\hFD, \h00, \hFF}

\* LDA #v; PHP; PHA; PLP; PLA
Exchange(v) == <<\hA9, v, \h08, \h48, \h28, \h68, \h00>>

\* n times the opcode op
Repeat(op, n) == [k \in 1..n |-> op]

\* n pushes, then n pulls: PHP; n - 1 times PHA; n - 1 times PLA; PLP
Nested(n) ==
    <<\h08>> \o Repeat(\h48, n - 1) \o Repeat(\h68, n - 1) \o <<\h28, \h00>>

\* the deepest nesting of pushes in the programs
MaxNesting == 257

\* programs that pull what the caller left in the stack page
PullPrograms == { <<\h68, \h00>>, <<\h28, \h00>> }

\* programs that push, and pull what they pushed
PushPrograms ==
    { <<\h08, \h00>>, <<\h48, \h00>>,
      <<\h48, \h68, \h00>>, <<\h08, \h28, \h00>>,
      <<\h48, \h08, \h28, \h68, \h00>>,
      <<\h08, \h48, \h68, \h48, \h08, \h28, \h68, \h28, \h00>> }
    \cup { Exchange(v) : v \in StackBytes }

\* the cell a pull with SP = sp reads, holding b
PullCell(sp, b) == (STACK + Wrap8(sp + 1)) :> b

StackScenarios ==
    { Scenario(p, a, 0, 0, sp, st, PullCell(sp, b), {}) :
        p \in PullPrograms, a \in {\h00, \h55}, sp \in StackPointers,
        st \in StackBytes, b \in StackBytes }
    \cup
    { Scenario(p, a, 0, 0, sp, st, NoCells, {}) :
        p \in PushPrograms, a \in {\h00, \h55, \h80, \hFF}, sp \in StackPointers,
        st \in StackBytes }
    \cup
    { Scenario(Nested(n), \h55, 0, 0, sp, st, NoCells, {}) :
        n \in {StackSize, MaxNesting}, sp \in StackPointers,
        st \in {\h00, \hC3} }

InitStack == InitOf(StackScenarios)

SpecStack == InitStack /\ [][Next]_vars

\* the handler of the opcode op has just run
Handled(op) == pc = "advance" /\ code = op

\* C11: after PLA, Zero is set iff the byte now in A is 0 and Negative is set
\* iff bit 7 of that byte is 1, whatever the byte and the status before
C11_PlaFlags ==
    Handled(\h68)
        => /\ cpu.register_a = mem_read(pre, STACK + Wrap8(pre.stack_pointer + 1))
           /\ get_flag(cpu, Zero) = (cpu.register_a = 0)
           /\ get_flag(cpu, Negative) = (Bit(cpu.register_a, 7) = 1)

\* P with Break and Break2 set
WithBreakBits(p) == BitOr(p, Break + Break2, 8)

\* C12: the byte PHP writes to 0x0100 + SP is P with Break (bit 4) and
\* Break2 (bit 5) set, for every P
C12_PhpByte ==
    Handled(\h08)
        => mem_read(cpu, STACK + pre.stack_pointer) = WithBreakBits(pre.status)

\* the record of the push that a pull is about to match
Top == pushes[Len(pushes)]

\* the byte b as PLP leaves it in P: Break clear, Break2 set
AsPulledStatus(b) == BitOr(BitAnd(b, BitNot(Break, 8), 8), Break2, 8)

\* the handler of the opcode op is about to run, and does not abort
Handling(op) == pc = "execute" /\ code = op /\ cpu'.panic = "none"

\* PLA and PLP load the byte written by the matching push and put SP back
PullsMatch(intact) ==
    /\ (Handling(\h68) /\ pushes # <<>> /\ (intact => Top.above < StackSize))
          => /\ cpu'.register_a = Top.byte
             /\ cpu'.stack_pointer = Top.sp
    /\ (Handling(\h28) /\ pushes # <<>> /\ (intact => Top.above < StackSize))
          => /\ cpu'.status = AsPulledStatus(Top.byte)
             /\ cpu'.stack_pointer = Top.sp

\* PHA writes A; PHP writes P, Break and Break2 aside; in LDA #v; PHP; PHA;
\* PLP; PLA the byte PHP writes is the status as it was, and P ends as v with
\* Break clear and Break2 set
PushesWrite ==
    /\ Handling(\h48) => pushes'[Len(pushes')].byte = cpu.register_a
    /\ Handling(\h08) =>
          BitAnd(pushes'[Len(pushes')].byte, \hCF, 8) = BitAnd(cpu.status, \hCF, 8)
    /\ (Handling(\h08) /\ program = Exchange(program[2])) =>
          pushes'[Len(pushes')].byte = cpu.status
    /\ (pc' = "returned" /\ program = Exchange(program[2]) /\ ~reset_called) =>
          /\ cpu'.status = AsPulledStatus(program[2])
          /\ pushes' = <<>>

\* C13 as stated: in any balanced sequence of PHA/PHP/PLA/PLP each PLA loads
\* into A the byte written by the matching push, each PLP loads into P that
\* byte with Break clear and Break2 set, and SP returns to where it was
C13_StackLifo == [][PullsMatch(FALSE) /\ PushesWrite]_vars

\* C13 amended: the same for sequences that never have more than 256 bytes
\* pushed and not yet pulled
C13_StackLifoWithinPage == [][PullsMatch(TRUE) /\ PushesWrite]_vars

\* 256 pushes have been pulled again, the last by a PLP that restores P
C13_Witness ==
    /\ Handled(\h28)
    /\ program = Nested(StackSize)
    /\ pushes = <<>>
    /\ pre.status = \hF3 /\ cpu.status = \hE3
    /\ cpu.stack_pointer = \hFD

-----------------------------------------------------------------------------
(* ADC, SBC and the compares                                                *)

\* values for the register and the operand: both ends, the sign boundary,
\* the operands of the tests
ArithBytes ==
    {\h00, \h01, \h3F, \h40, \h50, \h7F, \h80, \h81, \h90, \hB0, \hD0, \hFF}

\* ADC and SBC, immediate and zero page
AddOps == {\h69, \h65}
SubOps == {\hE9, \hE5}
\* CMP, CPX, CPY, immediate and zero page
CmpOps == {\hC9, \hC5}
CpxOps == {\hE0, \hE4}
CpyOps == {\hC0, \hC4}
ImmediateOps == {\h69, \hE9, \hC9, \hE0, \hC0}

\* the zero-page cell the zero-page forms read
OperandCell == \h10

\* the instruction op with the operand m: in the instruction, or in the cell
WithOperand(op, m, a, x, y, st) ==
    IF op \in ImmediateOps
    THEN Scenario(<<op, m, \h00>>, a, x, y, \hFD, st, NoCells, {})
    ELSE Scenario(<<op, OperandCell, \h00>>, a, x, y, \hFD, st,
                  OperandCell :> m, {})

ArithScenarios ==
    { WithOperand(op, m, a, \h11, \h22, st) :
        op \in AddOps \cup SubOps, a \in ArithBytes, m \in ArithBytes,
        st \in {\h00, \h01, \hC2, \hFF} }
    \cup
    \* the three registers differ, so that a compare of the wrong one shows
    { WithOperand(op, m, IF op \in CmpOps THEN r ELSE Wrap8(r + 1),
                         IF op \in CpxOps THEN r ELSE Wrap8(r + 2),
                         IF op \in CpyOps THEN r ELSE Wrap8(r + 3), st) :
        op \in CmpOps \cup CpxOps \cup CpyOps, r \in ArithBytes,
        m \in ArithBytes, st \in {\h00, \h7C, \hFF} }

InitArith == InitOf(ArithScenarios)

SpecArith == InitArith /\ [][Next]_vars

\* the operand byte M of the instruction fetched at `start`
OperandByte ==
    IF code \in ImmediateOps THEN mem_read(pre, start + 1)
    ELSE mem_read(pre, mem_read(pre, start + 1))

\* the carry going in
CarryIn == IF get_flag(pre, Carry) THEN 1 ELSE 0

\* the CPU holds the sum t of A (as it was) and m, and its flags
HoldsSum(t, m) ==
    /\ cpu.register_a = t % 256
    /\ get_flag(cpu, Carry) = (t >= 256)
    /\ get_flag(cpu, Zero) = (t % 256 = 0)
    /\ get_flag(cpu, Negative) = (Bit(t, 7) = 1)
    /\ get_flag(cpu, Overflow) =
          (BitAnd(BitAnd(BitXor(pre.register_a, t, 16),
                         BitNot(BitXor(pre.register_a, m, 16), 16), 16),
                  \h80, 16) # 0)

\* C14: ADC leaves A = t mod 256 with t = A + M + c, Carry = (t >= 256),
\* Zero = (t mod 256 = 0), Negative = bit 7 of t and Overflow =
\* ((A xor t) and not (A xor M) and 0x80) # 0; SBC is the same with 255 - M
C14_AdcSbc ==
    /\ (pc = "advance" /\ code \in AddOps)
          => HoldsSum(pre.register_a + OperandByte + CarryIn, OperandByte)
    /\ (pc = "advance" /\ code \in SubOps)
          => HoldsSum(pre.register_a + (255 - OperandByte) + CarryIn,
                      255 - OperandByte)

\* 0xD0 + 0x90 + 1 has been added (carry out, signed overflow), from memory
C14_Witness ==
    /\ Handled(\h65)
    /\ pre.register_a = \hD0 /\ OperandByte = \h90 /\ CarryIn = 1
    /\ cpu.register_a = \h61
    /\ get_flag(cpu, Carry) /\ get_flag(cpu, Overflow)

\* the register a compare reads
Compared(c) ==
    IF code \in CmpOps THEN c.register_a
    ELSE IF code \in CpxOps THEN c.register_x
    ELSE c.register_y

\* the status bits a compare does not own
OtherBits(c) == BitAnd(c.status, BitNot(Zero + Carry + Negative, 8), 8)

\* C15: a compare of r (A, X or Y) with M sets Zero = (r = M), Carry =
\* (r >= M), Negative = (r < M) and changes no register, no memory cell and no
\* other status bit
C15_Compare ==
    (pc = "advance" /\ code \in CmpOps \cup CpxOps \cup CpyOps)
        => /\ get_flag(cpu, Zero) = (Compared(pre) = OperandByte)
           /\ get_flag(cpu, Carry) = (Compared(pre) >= OperandByte)
           /\ get_flag(cpu, Negative) = (Compared(pre) < OperandByte)
           /\ cpu.register_a = pre.register_a
           /\ cpu.register_x = pre.register_x
           /\ cpu.register_y = pre.register_y
           /\ cpu.stack_pointer = pre.stack_pointer
           /\ cpu.bus = pre.bus
           /\ OtherBits(cpu) = OtherBits(pre)

\* X = 0x01 has been compared with 0xFF: the difference is -254, whose low
\* byte has bit 7 clear, and Negative is set
C15_Witness ==
    /\ Handled(\hE4)
    /\ pre.register_x = \h01 /\ OperandByte = \hFF
    /\ get_flag(cpu, Negative) /\ ~get_flag(cpu, Carry) /\ ~get_flag(cpu, Zero)
    /\ pre.status = \h7C

-----------------------------------------------------------------------------
(* The bus: RAM mirrors, the PPU range, the rest                            *)

\* addresses at the ends of every range of the memory map, and inside
BusAddresses ==
    {\h0000, \h0010, \h07FF, \h0800, \h0810, \h0FFF, \h1810, \h1FFF,
     \h2000, \h2007, \h3FFE, \h3FFF, \h4000, \h8000, \hFFFE, \hFFFF}

\* STA $a; LDA $b
StoreLoad(a, b) ==
    <<\h8D, a % 256, a \div 256, \hAD, b % 256, b \div 256, \h00>>

\* what the caller wrote before: nothing, or cells of the first RAM image
BusCells == { NoCells, (\h0010 :> \h77) @@ (\h07FF :> \h01) }

BusScenarios ==
    { Scenario(StoreLoad(a, b), v, 0, 0, \hFD, 0, cells, {}) :
        a \in BusAddresses, b \in BusAddresses, v \in {\h00, \h5A},
        cells \in BusCells }

InitBus == InitOf(BusScenarios)

SpecBus == InitBus /\ [][Next]_vars

\* the 16-bit operand of the instruction fetched at `start`
AbsoluteOperand == LittleEndianAt(pre, start + 1)

\* STA $a has written, LDA $b has read
Stored == pc = "advance" /\ code = \h8D
Loaded == pc = "advance" /\ code = \hAD

InRam(a) == a >= \h0000 /\ a <= \h1FFF
InPpu(a) == a >= \h2000 /\ a <= \h3FFF

\* the addresses of the RAM range with the index of a
Mirrors(a) == { (a % RamSize) + RamSize * k : k \in 0..3 }

\* C16: after write(a, v) with a in 0x0000..0x1FFF, read(b) returns v for
\* every b of that range with b & 0x07FF = a & 0x07FF, and the reads of every
\* other index are as before
C16_RamMirrors ==
    (Stored /\ InRam(AbsoluteOperand))
        => /\ \A b \in Mirrors(AbsoluteOperand) :
                 mem_read(cpu, b) = pre.register_a
           /\ \A b \in BusAddresses \cup { RamSize * k + 1 : k \in 0..3 } :
                 (InRam(b) /\ b \notin Mirrors(AbsoluteOperand))
                     => mem_read(cpu, b) = mem_read(pre, b)
           /\ \A k \in (0..(RamSize - 1)) \ {AbsoluteOperand % RamSize} :
                 Cell(cpu.bus, k) = Cell(pre.bus, k)

\* 0x5A has been written to 0x1810 and reads back at 0x0010, over what the
\* caller had put there
C16_Witness ==
    /\ Stored
    /\ AbsoluteOperand = \h1810
    /\ mem_read(pre, \h0010) = \h77
    /\ mem_read(cpu, \h0010) = \h5A
    /\ mem_read(cpu, \h07FF) = \h01

\* C17: every read and every write of an address in 0x2000..0x3FFF aborts:
\* no load and no store of such an address completes
C17_PpuAccessAborts ==
    (Stored \/ Loaded) => ~InPpu(AbsoluteOperand)

\* addresses past the PPU range
Unclaimed == { a \in BusAddresses : a >= \h4000 }

\* C18: for every address in 0x4000..0xFFFF a read returns 0 and a write
\* leaves all of RAM as it was, whatever was accessed before
C18_UnclaimedAddresses ==
    /\ \A a \in Unclaimed : mem_read(cpu, a) = 0
    /\ (Loaded /\ AbsoluteOperand >= \h4000) => cpu.register_a = 0
    /\ (Stored /\ AbsoluteOperand >= \h4000) => cpu.bus = pre.bus

\* after a store of 0x5A to 0x8000, with RAM not empty, a load from 0x8000
\* has put 0 in A
C18_Witness ==
    /\ Loaded
    /\ program = StoreLoad(\h8000, \h8000)
    /\ pre.register_a = \h5A /\ cpu.register_a = 0
    /\ Cell(cpu.bus, \h0010) = \h77

-----------------------------------------------------------------------------
(* The length-based PC advance                                              *)

\* where an instruction is placed: the load base, address 0, and the last
\* cells of the first image and of RAM
OpStarts == {LOAD_BASE, \h0000, \h07FE, \h1FFE, \h1FFF}

OpScenarios ==
    { Placed(s, op, operand, \h01, x, \h02, \hFD, st) :
        s \in OpStarts, op \in OPCODES_MAP \ {\h00}, operand \in {\h10, \hFF},
        x \in {\h00, \h01}, st \in BranchStatus }

InitOps == InitOf(OpScenarios)

SpecOps == InitOps /\ [][Next]_vars

\* the opcodes whose handler sets PC whenever it runs
SetsPc == {\h4C, \h6C, \h20, \h60}

\* C19: after an instruction whose handler does not set PC (any opcode but a
\* taken branch, JMP, JSR, RTS and BRK), PC is the address of the opcode plus
\* its length in the table; a branch not taken advances PC by 2
C19_AdvanceByLength ==
    (InstructionDone /\ code \notin SetsPc
        /\ ~(code \in BranchOps /\ BranchCondition(pre, code)))
        => /\ cpu.program_counter = start + OpLen(code)
           /\ (code \in BranchOps) => cpu.program_counter = start + 2

\* a three-byte instruction in the last two cells of RAM has left PC at 0x2001
C19_Witness ==
    /\ InstructionDone
    /\ code = \hAD /\ start = \h1FFE
    /\ cpu.program_counter = \h2001

-----------------------------------------------------------------------------
(* The countdown loop of test_bne                                           *)

\* LDX #n; L: DEX; STX $0200; CPX #3; BNE L; STX $0201; BRK
Countdown(n) ==
    <<\hA2, n, \hCA, \h8E, \h00, \h02, \hE0, \h03, \hD0, \hF8,
      \h8E, \h01, \h02, \h00>>

LoopScenarios ==
    { Scenario(Countdown(n), 0, 0, 0, \hFD, 0, NoCells, {}) : n \in U8 }

InitLoop == InitOf(LoopScenarios)

\* the caller's thread and the run loop keep going until run returns or aborts
SpecLoop == InitLoop /\ [][Next]_vars /\ WF_vars(Next)

\* run has returned from the countdown with X = 3, Zero set and both cells 3
CountedDown ==
    /\ pc = "returned"
    /\ cpu.register_x = \h03
    /\ get_flag(cpu, Zero)
    /\ mem_read(cpu, \h0200) = \h03
    /\ mem_read(cpu, \h0201) = \h03

\* the passes through the loop body still to come when DEX is about to run
\* with X = x: one when x = 4, 256 when x = 3
Passes(x) == ((x + 252) % 256) + 1

\* the passes still to come after a pass that left X = x
PassesAfter(x) == IF x = \h03 THEN 0 ELSE Passes(x)

\* the instructions still to run, the one at addr included, when X is x once
\* the instruction at addr has run
InstructionsLeft(addr, x) ==
    CASE addr = \h0600 -> 1 + 4 * Passes(x) + 2
      [] addr = \h0602 -> 4 + 4 * PassesAfter(x) + 2
      [] addr = \h0603 -> 3 + 4 * PassesAfter(x) + 2
      [] addr = \h0606 -> 2 + 4 * PassesAfter(x) + 2
      [] addr = \h0608 -> 1 + 4 * PassesAfter(x) + 2
      [] addr = \h060A -> 2
      [] OTHER -> 1

\* the steps the loop takes per instruction, and those left in the current one
StepsLeft ==
    CASE pc = "callback" -> 5
      [] pc = "fetch" -> 4
      [] pc = "decode" -> 3
      [] pc = "execute" -> 2
      [] pc = "advance" -> 1
      [] OTHER -> 0

\* the address of the instruction the loop is at, and X as that instruction
\* leaves it
AtAddress == IF pc \in {"callback", "fetch"} THEN cpu.program_counter ELSE start
XAfter ==
    IF pc = "advance" THEN cpu.register_x
    ELSE IF AtAddress = \h0600 THEN program[2]
    ELSE IF AtAddress = \h0602 THEN Wrap8(cpu.register_x + 255)
    ELSE cpu.register_x

\* a bound on the steps still to come, in every state
Variant ==
    CASE pc = "load" -> 6010 + (Len(program) - i)
      [] pc = "loaded" -> 6005
      [] pc = "reset" -> 6000
      [] pc \in {"returned", "panicked"} -> 0
      [] OTHER -> 5 * (InstructionsLeft(AtAddress, XAfter) - 1) + StepsLeft

\* C20: the countdown loop loaded at 0x0600 and run terminates for every n in
\* 0..255, with X = 0x03, Zero = 1, mem[0x0200] = 0x03 and mem[0x0201] = 0x03:
\* every step takes the run closer to its end (the variant is a natural number
\* that each step makes smaller), no step aborts or leaves the loop other than
\* by returning, and the run returns in the state described
C20_CountdownTerminates ==
    [][ /\ Variant' < Variant
        /\ Variant' >= 0
        /\ pc' \in {"load", "loaded", "reset", "callback", "fetch", "decode",
                    "execute", "advance", "returned"}
        /\ (pc' = "returned" /\ ~reset_called) => CountedDown' ]_vars

\* the countdown from 3 has returned: X went down through 0 and round to 3
C20_Witness ==
    /\ CountedDown
    /\ program = Countdown(\h03)
    /\ ~reset_called

-----------------------------------------------------------------------------
(* Bytes without a descriptor in the opcode table                           *)

\* the bytes the table has no descriptor for
UnknownOps == U8 \ OPCODES_MAP

\* every byte without a descriptor, and three with one, at each start
DecodeScenarios ==
    { Placed(s, op, operand, \h01, x, \h02, \hFD, st) :
        s \in OpStarts, op \in UnknownOps \cup {\hEA, \hA9, \hE8},
        operand \in {\h10, \hFF}, x \in {\h00, \h01}, st \in BranchStatus }

InitDecode == InitOf(DecodeScenarios)

SpecDecode == InitDecode /\ [][Next]_vars

\* the loop has aborted on the byte `code`, which the table does not have
UnknownAborted == pc = "panicked" /\ cpu.panic = "expect"

\* C21: when the byte fetched at PC is not in the opcode table, the loop aborts
\* on that byte (the step after the fetch is the abort, with the fetched byte
\* as the one reported); the CPU is then as it was before the fetch but for PC,
\* which is one past the byte, memory included; and no step follows the abort
C21_UnknownOpcodeAborts ==
    [][ /\ (pc = "decode" /\ code \notin OPCODES_MAP)
            => /\ UnknownAborted'
               /\ code' = code
               /\ code = mem_read(pre, start)
               /\ cpu' = [pre EXCEPT !.program_counter = start + 1,
                                     !.panic = "expect"]
        /\ ~UnknownAborted ]_vars

\* the loop has aborted on 0x02 fetched from the last cell of RAM, with PC
\* 0x2000 and the registers as preset
C21_Witness ==
    /\ UnknownAborted
    /\ code = \h02 /\ start = \h1FFF
    /\ cpu.program_counter = \h2000
    /\ cpu.register_a = \h01 /\ cpu.register_y = \h02
    /\ cpu.stack_pointer = \hFD

-----------------------------------------------------------------------------
(* Which status bits an instruction changes                                 *)

\* CLC, SEC, CLI, SEI, CLD, SED, CLV
FlagOps == {\h18, \h38, \h58, \h78, \hD8, \hF8, \hB8}

\* STA, STX, STY, PHA, NOP, JMP, JSR, RTS and the branches
NoFlagOps ==
    {\h85, \h95, \h8D, \h9D, \h99, \h81, \h91, \h86, \h96, \h8E, \h84, \h94,
     \h8C, \h48, \hEA, \h4C, \h6C, \h20, \h60} \cup BranchOps

\* LDA, LDX, LDY, TAX, TAY, TXA, TYA, TSX, INC, DEC, INX, DEX, INY, DEY, AND,
\* EOR, ORA
ZeroNegativeOps ==
    {\hA9, \hA5, \hB5, \hAD, \hBD, \hB9, \hA1, \hB1,
     \hA2, \hA6, \hB6, \hAE, \hBE, \hA0, \hA4, \hB4, \hAC, \hBC,
     \hAA, \hA8, \h8A, \h98, \hBA,
     \hE6, \hF6, \hEE, \hFE, \hC6, \hD6, \hCE, \hDE, \hE8, \hCA, \hC8, \h88,
     \h29, \h25, \h35, \h2D, \h3D, \h39, \h21, \h31,
     \h49, \h45, \h55, \h4D, \h5D, \h59, \h41, \h51,
     \h09, \h05, \h15, \h0D, \h1D, \h19, \h01, \h11}

\* ASL, LSR, ROL, ROR
ShiftOps ==
    {\h0A, \h06, \h16, \h0E, \h1E, \h4A, \h46, \h56, \h4E, \h5E,
     \h2A, \h26, \h36, \h2E, \h3E, \h6A, \h66, \h76, \h6E, \h7E}

\* status bytes: none, all, N V Z C, the other four, and alternating bits
FrameStatus == {\h00, \hFF, \hC3, \h3C, \h55, \hAA}

\* <<op, operand>> at the load base, with byte m in cells 0x10 and 0x11
FrameScenarios ==
    { Scenario(<<op, operand, \h00>>, a, x, \h02, \hFD, st,
               [k \in {OperandCell, OperandCell + 1} |-> m], {}) :
        op \in FlagOps \cup NoFlagOps \cup ZeroNegativeOps \cup ShiftOps,
        operand \in {OperandCell, \h80}, a \in {\h00, \h80, \hFF},
        x \in {\h00, \h01}, m \in {\h01, \h80}, st \in FrameStatus }

InitFrame == InitOf(FrameScenarios)

SpecFrame == InitFrame /\ [][Next]_vars

\* the flag a flag instruction writes, and the value it writes
FlagOf(op) ==
    CASE op \in {\h18, \h38} -> Carry
      [] op \in {\h58, \h78} -> Interrupt
      [] op \in {\hD8, \hF8} -> Decimal
      [] op = \hB8 -> Overflow

FlagSet(op) == op \in {\h38, \h78, \hF8}

\* the status bits of c outside the mask
Outside(c, mask) == BitAnd(c.status, BitNot(mask, 8), 8)

\* C22: an instruction leaves the status bits it does not own as they were.
\* CLC/SEC/CLI/SEI/CLD/SED/CLV write their one bit of P and leave the other
\* bits, A, X, Y, SP and memory alone; stores, PHA, NOP, JMP, JSR, RTS and
\* branches leave P alone; loads, transfers to A/X/Y, increments, decrements
\* and AND/EOR/ORA change at most Zero and Negative; shifts and rotates change
\* at most Carry, Zero and Negative
C22_FlagFrame ==
    InstructionDone =>
        /\ code \in FlagOps =>
              /\ get_flag(cpu, FlagOf(code)) = FlagSet(code)
              /\ cpu = [pre EXCEPT
                          !.status = IF FlagSet(code)
                                     THEN BitOr(pre.status, FlagOf(code), 8)
                                     ELSE Outside(pre, FlagOf(code)),
                          !.program_counter = start + 1]
        /\ code \in NoFlagOps => cpu.status = pre.status
        /\ code \in ZeroNegativeOps =>
              Outside(cpu, Zero + Negative) = Outside(pre, Zero + Negative)
        /\ code \in ShiftOps =>
              Outside(cpu, Carry + Zero + Negative)
                  = Outside(pre, Carry + Zero + Negative)

\* ASL $10 has shifted 0x80 out of the cell with every bit of P set: Carry
\* stays set, Zero stays set, Negative is cleared and the other five bits are
\* still set
C22_Witness ==
    /\ InstructionDone
    /\ code = \h06 /\ pre.status = \hFF /\ Cell(pre.bus, OperandCell) = \h80
    /\ cpu.status = \h7F

-----------------------------------------------------------------------------
(* ROL followed by ROR                                                      *)

RolOps == {\h2A, \h26, \h36, \h2E, \h3E}
RorOps == {\h6A, \h66, \h76, \h6E, \h7E}

\* the ROR with the addressing mode of a ROL
RorOf(op) == op + \h40

\* ROL and ROR pairs on one operand: the opcode of the ROL, the operand bytes
\* of both, and the address the operand is at when X = 1 (-1: the accumulator)
RotateOperands ==
    { <<\h2A, <<>>, -1>>,
      <<\h26, <<\h10>>, \h0010>>,
      <<\h26, <<\hFF>>, \h00FF>>,
      <<\h36, <<\h10>>, \h0011>>,
      <<\h36, <<\hFF>>, \h0000>>,
      <<\h2E, <<\h00, \h02>>, \h0200>>,
      <<\h2E, <<\hFF, \h1F>>, \h1FFF>>,
      <<\h3E, <<\hFF, \h07>>, \h0800>>,
      <<\h3E, <<\hFF, \h01>>, \h0200>> }

\* ROL operand; ROR operand; BRK
RotatePair(r) == <<r[1]>> \o r[2] \o <<RorOf(r[1])>> \o r[2] \o <<\h00>>

\* status bytes whose Overflow bit equals their Carry bit
RotateStatus == {\h00, \h41, \hBE, \hFF}

\* the pair run on every byte v with either carry; Y holds a copy of v and
\* Overflow a copy of Carry, and neither instruction writes them
RotateScenarios ==
    { Scenario(RotatePair(r), IF r[3] = -1 THEN v ELSE \h33, \h01, v, \hFD, st,
               IF r[3] = -1 THEN NoCells ELSE r[3] :> v, {}) :
        r \in RotateOperands, v \in U8, st \in RotateStatus }

InitRotate == InitOf(RotateScenarios)

SpecRotate == InitRotate /\ [][Next]_vars

\* the loop has finished the ROR that follows the ROL at the load base
RotatedBack ==
    /\ InstructionDone
    /\ program[1] \in RolOps
    /\ code = RorOf(program[1])
    /\ start = LOAD_BASE + OpLen(program[1])

\* the operand of the instruction just finished, as it is now
OperandNow ==
    IF OpMode(code) = "NoneAddressing" THEN cpu.register_a
    ELSE mem_read(cpu, fetch([pre EXCEPT !.program_counter = start + 1],
                             OpMode(code)))

\* C23: after ROL and then ROR on the same operand (the accumulator, or a RAM
\* cell through the same addressing mode) the operand is the byte it was
\* before the ROL and Carry is what it was before the ROL
C23_RolRorIdentity ==
    RotatedBack =>
        /\ OperandNow = cpu.register_y
        /\ get_flag(cpu, Carry) = get_flag(cpu, Overflow)

\* ROL $1FFF; ROR $1FFF has restored 0x81 in the last RAM cell with Carry set
C23_Witness ==
    /\ RotatedBack
    /\ code = \h6E /\ LittleEndianAt(pre, start + 1) = \h1FFF
    /\ mem_read(cpu, \h07FF) = \h81
    /\ cpu.register_y = \h81
    /\ get_flag(cpu, Carry)

-----------------------------------------------------------------------------
(* The stack pointer at the ends of the stack page                          *)

\* PHA, PHP, PLA, PLP
PushPullOps == {\h48, \h08, \h68, \h28}

\* stack pointers at both ends of the page, and the reset value
EdgePointers == {\h00, \h01, \hFD, \hFE, \hFF}

\* two pushes or pulls in a row; TXS and then one; JSR and RTS
PointerPrograms ==
    { <<p, q, \h00>> : p \in PushPullOps, q \in PushPullOps }
    \cup { <<\h9A, p, \h00>> : p \in PushPullOps }
    \cup { <<\h20, \h10, \h00>>, <<\h60, \h00>> }

\* the cells at both ends of the stack page, for the pulls
PointerCells ==
    (\h0100 :> \h11) @@ (\h0101 :> \h22) @@ (\h01FE :> \h33) @@ (\h01FF :> \h44)

PointerScenarios ==
    { Scenario(p, a, x, 0, sp, st, PointerCells, {}) :
        p \in PointerPrograms, a \in {\h00, \hAA}, x \in {\h00, \hFF},
        sp \in EdgePointers, st \in {\h00, \hFF} }

InitPointer == InitOf(PointerScenarios)

SpecPointer == InitPointer /\ [][Next]_vars

\* the address of the stack cell for stack pointer s: 0x0100 | s
StackCell(s) == BitOr(STACK, s, 16)

\* the bus differs from the one before the step at most in the cells at `at`
WritesOnly(at) ==
    \A k \in 0..(RamSize - 1) :
        k \notin at => Cell(cpu'.bus, k) = Cell(cpu.bus, k)

\* C24: SP stays in 0x00..0xFF and its arithmetic wraps. A push (PHA, PHP, and
\* the two of JSR) writes the cell 0x0100 | SP and then takes 1 from SP modulo
\* 256; a pull (PLA, PLP, and the two of RTS) first adds 1 to SP modulo 256 and
\* then reads the cell 0x0100 | SP; no cell outside 0x0100..0x01FF is written
\* and none of these instructions aborts, at either end of the page
C24_StackPointerWraps ==
    [][ /\ cpu'.stack_pointer \in U8
        /\ (pc = "execute" /\ code \in PushPullOps \cup {\h20, \h60}) =>
              LET sp == cpu.stack_pointer
                  down(n) == (sp + 256 - n) % 256
                  up(n) == (sp + n) % 256
              IN  /\ cpu'.panic = "none"
                  /\ code = \h48 =>
                        /\ cpu'.stack_pointer = down(1)
                        /\ cpu'.bus = SetCell(cpu.bus, StackCell(sp),
                                              cpu.register_a)
                  /\ code = \h08 =>
                        /\ cpu'.stack_pointer = down(1)
                        /\ cpu'.bus = SetCell(cpu.bus, StackCell(sp), cpu.status)
                  /\ code = \h20 =>
                        /\ cpu'.stack_pointer = down(2)
                        /\ WritesOnly({StackCell(sp), StackCell(down(1))})
                  /\ code = \h68 =>
                        /\ cpu'.stack_pointer = up(1)
                        /\ cpu'.register_a = Cell(cpu.bus, StackCell(up(1)))
                        /\ cpu'.bus = cpu.bus
                  /\ code = \h28 =>
                        /\ cpu'.stack_pointer = up(1)
                        /\ cpu'.status
                              = AsPulledStatus(Cell(cpu.bus, StackCell(up(1))))
                        /\ cpu'.bus = cpu.bus
                  /\ code = \h60 =>
                        /\ cpu'.stack_pointer = up(2)
                        /\ cpu'.program_counter
                              = Cell(cpu.bus, StackCell(up(1)))
                                + 256 * Cell(cpu.bus, StackCell(up(2)))
                        /\ cpu'.bus = cpu.bus ]_vars

\* PHA at SP = 0x00 has written 0xAA to 0x0100 and left SP = 0xFF, and the
\* PLA after it has read the cell back with SP = 0x00 again
C24_Witness ==
    /\ InstructionDone
    /\ program = <<\h48, \h68, \h00>>
    /\ code = \h68 /\ pre.stack_pointer = \hFF
    /\ cpu.stack_pointer = \h00
    /\ Cell(cpu.bus, \h0100) = \hAA
    /\ cpu.register_a = \hAA

-----------------------------------------------------------------------------
(* PC arithmetic at the top of the address space                            *)

\* C25: all PC arithmetic wraps modulo 65536 and never aborts: the increment
\* after the fetch takes PC = 0xFFFF to 0x0000, the length-based advance adds
\* len - 1 modulo 65536, and a taken branch lands on the address after its
\* operand plus the signed offset, modulo 65536
C25_PcArithmeticWraps ==
    [][ /\ (pc = "fetch" /\ mem_read(cpu, cpu.program_counter) >= 0) =>
              /\ cpu'.panic = "none"
              /\ cpu'.program_counter = (cpu.program_counter + 1) % 65536
        /\ (pc = "fetch" /\ cpu.program_counter = \hFFFF) =>
              cpu'.program_counter = \h0000
        /\ (pc = "advance") =>
              /\ cpu'.panic = "none"
              /\ (program_counter_state = cpu.program_counter) =>
                    cpu'.program_counter
                        = (cpu.program_counter + OpLen(code) - 1) % 65536
        /\ (pc = "execute" /\ code \in BranchOps /\ BranchCondition(cpu, code)) =>
              /\ cpu'.panic = "none"
              /\ cpu'.program_counter
                    = (cpu.program_counter + 1
                       + Signed(mem_read(cpu, cpu.program_counter))
                       + 65536) % 65536 ]_vars

-----------------------------------------------------------------------------
(* 16-bit values on the bus: the caller's mem_write_u16, then mem_read_u16  *)

\* addresses at both ends of RAM and of each image boundary, and one in each
\* other range
WordAddresses ==
    {\h0000, \h0001, \h00FF, \h0100, \h07FE, \h07FF, \h0800, \h0FFF, \h17FF,
     \h1800, \h1FFD, \h1FFE, \h1FFF, \h2000, \h3FFF, \h4000, \hFFFC, \hFFFF}

WordValues ==
    {\h0000, \h0001, \h00FF, \h0100, \h1234, \h3412, \h7FFF, \h8000, \hABCD,
     \hFF00, \hFFFF}

\* what the two cells hold before the write: nothing, or a byte in each
WordCells(p) ==
    {NoCells,
     [k \in {p % RamSize, (p + 1) % RamSize} |-> \h55]}

\* CPU::new(Bus::new()), with the cells preset through mem_write
InitWord ==
    /\ word_pos \in WordAddresses
    /\ word_data \in WordValues
    /\ \E cells \in WordCells(word_pos) : cpu = Preset(new(Bus_new), cells)
    /\ overflow_checks \in BOOLEAN
    /\ pc = "write_u16"
    /\ word_read = 0
    /\ program = <<>>
    /\ callback_pcs = {}
    /\ i = 0
    /\ code = 0
    /\ program_counter_state = 0
    /\ start = 0
    /\ pre = cpu
    /\ reset_called = FALSE
    /\ calls = <<>>
    /\ callbacks_since_fetch = 0
    /\ callback_set_pc = FALSE
    /\ pushes = <<>>

\* cpu.mem_write_u16(pos, data)
WriteU16 ==
    /\ pc = "write_u16"
    /\ cpu' = mem_write_u16(cpu, word_pos, word_data)
    /\ pc' = Where(cpu', "read_u16")
    /\ UNCHANGED <<inputs, i, code, program_counter_state, start, pre,
                   reset_called, calls, callbacks_since_fetch,
                   callback_set_pc, pushes, word_read>>

\* let word = cpu.mem_read_u16(pos)
ReadU16 ==
    /\ pc = "read_u16"
    /\ LET r == mem_read_u16(cpu, word_pos)
       IN  /\ cpu' = IF r < 0 THEN Panic(cpu, r) ELSE cpu
           /\ word_read' = IF r < 0 THEN word_read ELSE r
    /\ pc' = Where(cpu', "done")
    /\ UNCHANGED <<inputs, i, code, program_counter_state, start, pre,
                   reset_called, calls, callbacks_since_fetch,
                   callback_set_pc, pushes>>

NextWord == WriteU16 \/ ReadU16

SpecWord == InitWord /\ [][NextWord]_vars

\* write_u16(pos, v) has stored v's low byte at pos and its high byte at
\* pos + 1 without aborting, and the read_u16(pos) after it has returned v
RoundTrips ==
    /\ pc # "panicked"
    /\ pc \in {"read_u16", "done"} =>
          /\ mem_read(cpu, word_pos) = word_data % 256
          /\ mem_read(cpu, word_pos + 1) = word_data \div 256
    /\ pc = "done" => word_read = word_data

\* C26 as stated: for every pos in 0x0000..=0x1FFF and every 16-bit v,
\* write_u16(pos, v) stores v's low byte at pos and its high byte at pos + 1,
\* and a following read_u16(pos) returns v
C26_WordRoundTrip ==
    (word_pos >= RAM /\ word_pos <= RAM_MIRRORS_END) => RoundTrips

\* C26: for every pos in 0x0000..=0x1FFE, so that pos + 1 is in RAM too, and
\* every 16-bit v, write_u16(pos, v) stores v's low byte at pos and its high
\* byte at pos + 1, and a following read_u16(pos) returns v
C26_WordRoundTripBelowRamEnd ==
    (word_pos >= RAM /\ word_pos < RAM_MIRRORS_END) => RoundTrips

\* 0x1234 written at 0x07FF, the last cell of the first image, has been read
\* back: the low byte is in cell 0x07FF and the high byte in cell 0
C26_Witness ==
    /\ pc = "done"
    /\ word_pos = \h07FF /\ word_data = \h1234
    /\ word_read = \h1234
    /\ Cell(cpu.bus, \h07FF) = \h34
    /\ Cell(cpu.bus, \h0000) = \h12

-----------------------------------------------------------------------------
(* What load leaves alone                                                   *)

\* A, X, Y, SP and P
Registers(c) ==
    <<c.register_a, c.register_x, c.register_y, c.stack_pointer, c.status>>

\* load is running or has run, reset has not been called and the loop has not
\* fetched yet: `pre` is still the CPU as the caller handed it to load
BeforeFirstFetch ==
    /\ ~reset_called
    /\ code = 0
    /\ pc \in {"load", "loaded", "callback", "fetch"}

\* C27: load changes only memory and PC. While load runs and up to the first
\* fetch of a run without reset, A, X, Y, SP and P are as the caller set them
\* before load, so a freshly constructed CPU starts the program with SP = 0x00
\* and not the reset value 0xFD; load leaves PC at the load base
C27_LoadFrame ==
    BeforeFirstFetch =>
        /\ Registers(cpu) = Registers(pre)
        /\ (pre.stack_pointer = new(Bus_new).stack_pointer) =>
              (cpu.stack_pointer = \h00 /\ cpu.stack_pointer # STACK_RESET)
        /\ pc = "loaded" => cpu.program_counter = LOAD_BASE

\* INX; INX run by load_and_run on a CPU with X preset to 0xFF and SP as
\* constructed: the program has seen the preset X and SP is still 0x00
C27_Witness ==
    /\ pc = "returned" /\ ~reset_called
    /\ program = <<\hE8, \hE8, \h00>>
    /\ cpu.register_x = \h01
    /\ cpu.stack_pointer = \h00

-----------------------------------------------------------------------------
(* What a BRK leaves behind                                                 *)

\* C28: when run returns, it does so on a 0x00 fetched at address b = `start`:
\* PC is b + 1 (modulo 65536) and A, X, Y, SP, P and every memory cell are as
\* they were just before that fetch; nothing was pushed and no flag was set
C28_BrkFrame ==
    pc = "returned" =>
        /\ code = \h00
        /\ start = pre.program_counter
        /\ mem_read(pre, start) = \h00
        /\ cpu = [pre EXCEPT !.program_counter = (start + 1) % 65536]
        /\ cpu.bus = pre.bus
        /\ Registers(cpu) = Registers(pre)

\* LDA #5; BRK has returned on the BRK at 0x0602 with PC = 0x0603, A = 5, the
\* preset status 0xFF less Zero and Negative, and SP as preset
C28_Witness ==
    /\ pc = "returned" /\ ~reset_called
    /\ program = <<\hA9, \h05, \h00>>
    /\ start = \h0602
    /\ cpu.program_counter = \h0603
    /\ cpu.register_a = \h05
    /\ cpu.status = \h7D
    /\ cpu.stack_pointer = \hFD

-----------------------------------------------------------------------------
(* Fetching opcodes outside RAM                                             *)

\* where the program sends PC: both ends of RAM, of the PPU range and of the
\* rest of the address space
RegionTargets ==
    {\h0000, \h07FF, \h1FFF, \h2000, \h3FFE, \h3FFF, \h4000, \h4001, \h47FF,
     \h8000, \hFFFC, \hFFFE, \hFFFF}

\* INX in the first and the last cell of RAM's image, of which every address
\* would be a mirror if the whole address space were RAM
RegionCells == (\h0000 :> \hE8) @@ (\h0001 :> \hE8) @@ (\h07FF :> \hE8)

\* JMP to each target, and a run whose callback moves PC out of RAM
RegionScenarios ==
    { Scenario(JmpTo(t), a, x, 0, \hFD, st, RegionCells, cbs) :
        t \in RegionTargets, a \in {\h00, \h80}, x \in {\h00, \hFF},
        st \in {\h00, \hFF},
        cbs \in {{}, {\h4000, \h8000, \hFFFE}} }

InitRegion == InitOf(RegionScenarios)

SpecRegion == InitRegion /\ [][Next]_vars

\* C29: a fetch with PC in 0x4000..=0xFFFE reads 0x00 and run returns on it
\* with no handler run, so every instruction that is executed was fetched from
\* an address below 0x4000
C29_NoExecutionOutsideRam ==
    [][ /\ (pc = "fetch" /\ cpu.program_counter >= \h4000
                         /\ cpu.program_counter <= \hFFFE) =>
              /\ pc' = "decode"
              /\ code' = \h00
              /\ cpu' = [cpu EXCEPT !.program_counter = cpu.program_counter + 1]
        /\ (pc \in {"decode", "execute"} /\ code = \h00 /\ start >= \h4000) =>
              /\ cpu' = cpu
              /\ pc' = IF pc = "decode" THEN "execute" ELSE "returned"
        /\ (pc = "execute" /\ code # \h00) => start < \h4000 ]_vars

\* run has returned on the byte fetched at 0x4000, whose cell in RAM's image
\* (cell 0) holds INX: X is as preset and PC is 0x4001
C29_Witness ==
    /\ pc = "returned"
    /\ start = \h4000
    /\ Cell(cpu.bus, \h0000) = \hE8
    /\ cpu.register_x = \hFF
    /\ cpu.program_counter = \h4001

-----------------------------------------------------------------------------
(* Carry, Zero and Negative after a compare                                 *)

\* CMP, CPX and CPY with an immediate operand
CompareImmediateOps == {\hC9, \hE0, \hC0}

\* CMP, CPX and CPY with an operand in memory
CompareMemoryOps ==
    {\hC5, \hD5, \hCD, \hDD, \hD9, \hC1, \hD1, \hE4, \hEC, \hC4, \hCC}

\* every register value against the boundary operands, immediate; and every
\* memory form with the operand in cells 0x10 and 0x11
CompareScenarios ==
    { Scenario(<<op, m, \h00>>, r, r, r, \hFD, \hFF, NoCells, {}) :
        op \in CompareImmediateOps, r \in U8, m \in ArithBytes }
    \cup
    { Scenario(<<op, OperandCell, \h00>>,
               IF op \in {\hE4, \hEC, \hC4, \hCC} THEN k ELSE r,
               IF op \in {\hE4, \hEC} THEN r ELSE k,
               IF op \in {\hC4, \hCC} THEN r ELSE k,
               \hFD, st,
               [c \in {OperandCell, OperandCell + 1} |-> m], {}) :
        op \in CompareMemoryOps, r \in ArithBytes, m \in ArithBytes \ {\h00},
        k \in {\h00, \h01}, st \in {\h00, \hFF} }

InitCompare == InitOf(CompareScenarios)

SpecCompare == InitCompare /\ [][Next]_vars

\* C30: right after any CMP, CPX or CPY exactly one of Carry and Negative is
\* set, and Zero is set only together with Carry
C30_CompareFlags ==
    (pc = "advance" /\ code \in CompareImmediateOps \cup CompareMemoryOps) =>
        /\ get_flag(cpu, Carry) # get_flag(cpu, Negative)
        /\ get_flag(cpu, Zero) => get_flag(cpu, Carry)

\* CPY #$00 with Y = 0xFF and every bit of P set before: Carry stays set and
\* Negative is cleared, although bit 7 of the difference 0xFF is set
C30_Witness ==
    /\ pc = "advance"
    /\ code = \hC0 /\ pre.register_y = \hFF /\ mem_read(pre, start + 1) = \h00
    /\ pre.status = \hFF
    /\ get_flag(cpu, Carry) /\ ~get_flag(cpu, Negative) /\ ~get_flag(cpu, Zero)

=============================================================================
